---- MODULE Spec2Model ----
(***************************************************************************)
(* A model of the read-time runtime of binrw: the primitive codec, the     *)
(* two-phase read_options / after_parse protocol over composite types,     *)
(* file pointers (AbsPlacement, RelPlacement, AbsFilePtr, RelFilePtr), the  *)
(* top-level entry points, and the variant resolution of derived enums.    *)
(*                                                                         *)
(* The byte stream is a std::io::Cursor over `data`; `pos` is its cursor.  *)
(* Parsers are recursive operators over a type description, computed as    *)
(* the code computes them; every result carries the stream position it     *)
(* leaves behind and the log of the stream excursions it made.             *)
(***************************************************************************)
EXTENDS Integers, Sequences, FiniteSets, TLC

VARIABLES
    data,          \* the bytes of the stream
    pos,           \* the stream cursor
    targetLittle,  \* cfg!(target_endian = "little") of the build
    eofAdvances,   \* whether a short read_exact leaves the cursor at the end
    phase,         \* "idle", "probing", "returned", "resolved", "derefed", "panicked"
    call,          \* the entry point called, its type, options and arguments
    result,        \* what the entry point handed to the caller
    resolves,      \* how many times after_parse ran on the returned value
    log,           \* the excursions of the last call, in order
    derefOut,      \* the outcome of the last dereference
    enum,          \* the variant resolution in progress
    ctx            \* the ReadOptions in hand and the last operation on them

vars == <<data, pos, targetLittle, eofAdvances, phase, call, result,
          resolves, log, derefOut, enum, ctx>>

(* ------------------------------ bounds -------------------------------- *)

MaxLen == 3
MaxOffset == 1
MaxCount == 2
MaxResolves == 1

Bytes == {0, 1, 2, 255}

RECURSIVE SeqsUpTo(_, _)
SeqsUpTo(S, n) ==
    IF n = 0 THEN {<<>>}
    ELSE LET shorter == SeqsUpTo(S, n - 1)
         IN  shorter \cup {Append(s, x) : s \in {q \in shorter : Len(q) = n - 1}, x \in S}

Streams == SeqsUpTo(Bytes, MaxLen)

(* ------------------------------ values -------------------------------- *)

None == [k |-> "None"]
Some(x) == [k |-> "Some", v |-> x]
Unit == <<>>
Endians == {"Big", "Little", "Native"}

IntV(n) == [k |-> "int", v |-> n]
SeqV(items) == [k |-> "seq", items |-> items]
BoxV(inner) == [k |-> "Box", inner |-> inner]
PtrV(kind, raw, value) == [k |-> kind, ptr |-> raw, value |-> value]

IoError == [k |-> "Io"]

Ok(val, p, lg) == [ok |-> TRUE, val |-> val, err |-> None, pos |-> p, log |-> lg]
Err(val, e, p, lg) == [ok |-> FALSE, val |-> val, err |-> e, pos |-> p, log |-> lg]

(* ------------------------------- types -------------------------------- *)

U8 == [k |-> "int", size |-> 1]
U16 == [k |-> "int", size |-> 2]
AbsFilePtr(pw, t) == [k |-> "AbsFilePtr", pw |-> pw, t |-> t]
RelFilePtr(pw, t) == [k |-> "RelFilePtr", pw |-> pw, t |-> t]
Array(n, t) == [k |-> "array", n |-> n, t |-> t]
Tuple(ts) == [k |-> "tuple", ts |-> ts]
BoxOf(t) == [k |-> "Box", t |-> t]
Counted(t) == [k |-> "Counted", t |-> t]

IsPtr(t) == t.k \in {"AbsFilePtr", "RelFilePtr"}

(* --------------------------- primitive codec -------------------------- *)

\* io::Read::read in place of read_exact: a short read is not an error.
read_exact_short(p, n) ==
    IF p + n <= Len(data)
    THEN [ok |-> TRUE, bytes |-> SubSeq(data, p + 1, p + n), pos |-> p + n]
    ELSE [ok |-> TRUE, bytes |-> SubSeq(data, p + 1, Len(data)), pos |-> Len(data)]

\* read_exact refusing a read that ends exactly at the end of the stream.
read_exact_off_by_one(p, n) ==
    IF p + n < Len(data)
    THEN [ok |-> TRUE, bytes |-> SubSeq(data, p + 1, p + n), pos |-> p + n]
    ELSE [ok |-> FALSE, bytes |-> <<>>,
          pos |-> IF eofAdvances THEN Len(data) ELSE p]

\* io::Read::read_exact of n bytes at position p.
read_exact(p, n) ==
    IF p + n <= Len(data)
    THEN [ok |-> TRUE, bytes |-> SubSeq(data, p + 1, p + n), pos |-> p + n]
    ELSE [ok |-> FALSE, bytes |-> <<>>,
          pos |-> IF eofAdvances THEN Len(data) ELSE p]

RECURSIVE from_be_bytes(_)
from_be_bytes(b) ==
    IF b = <<>> THEN 0
    ELSE from_be_bytes(SubSeq(b, 1, Len(b) - 1)) * 256 + b[Len(b)]

\* from_le_bytes taking the first byte as the most significant one.
from_le_bytes_msb_first(b) == from_be_bytes(b)

RECURSIVE from_le_bytes(_)
from_le_bytes(b) ==
    IF b = <<>> THEN 0 ELSE b[1] + 256 * from_le_bytes(Tail(b))

\* binread_impl! with the match on options.endian() left out: every integer
\* is decoded as little endian.
int_decode_ignoring_endian(r, endian) ==
    IF ~r.ok THEN Err(None, IoError, r.pos, <<>>)
    ELSE Ok(IntV(from_le_bytes(r.bytes)), r.pos, <<>>)

\* binread_impl!: the match on options.endian() over the bytes read.
int_decode(r, endian) ==
    IF ~r.ok THEN Err(None, IoError, r.pos, <<>>)
    ELSE Ok(IntV(CASE endian = "Big" -> from_be_bytes(r.bytes)
                   [] endian = "Little" -> from_le_bytes(r.bytes)
                   [] endian = "Native" ->
                        IF targetLittle THEN from_le_bytes(r.bytes)
                        ELSE from_be_bytes(r.bytes)),
            r.pos, <<>>)

\* binread_impl! decoding the bytes without consuming them.
int_read_options_peek(size, p, opts) ==
    [int_decode(read_exact(p, size), opts.endian) EXCEPT !.pos = p]

\* binread_impl!: read size_of::<T>() bytes, decode under options.endian().
int_read_options(size, p, opts) == int_decode(read_exact(p, size), opts.endian)

(* ------------------------- arguments (Args) --------------------------- *)

\* BinRead::Args of each type: "unit" for (), "tuple" for (usize, B::Args).
RECURSIVE ArgsKind(_)
ArgsKind(t) ==
    CASE t.k = "int" -> "unit"
      [] t.k = "tuple" -> "unit"
      [] t.k = "Counted" -> "tuple"
      [] OTHER -> ArgsKind(t.t)

\* The argument values a caller can pass for type t.
RECURSIVE ArgsOf(_)
ArgsOf(t) ==
    CASE t.k = "int" -> {Unit}
      [] t.k = "tuple" -> {Unit}
      [] t.k = "Counted" -> {<<c, a>> : c \in 0..MaxCount, a \in ArgsOf(t.t)}
      [] OTHER -> ArgsOf(t.t)

\* BinRead::args_default making up arguments where Self::Args is not ().
args_default_fabricated(t) == Some(CHOOSE a \in ArgsOf(t) : TRUE)

\* BinRead::args_default: Some(()) if Self::Args == (), otherwise None.
args_default(t) == IF ArgsKind(t) = "unit" THEN Some(Unit) ELSE None

(* ---------------------- phase 1: read_options ------------------------- *)

RECURSIVE read_options(_, _, _, _)
RECURSIVE read_elems(_, _, _, _, _)
RECURSIVE after_parse(_, _, _, _, _)
RECURSIVE after_parse_elems(_, _, _, _, _, _)

\* A result with the log of what ran before it put in front of its own.
PrependLog(lg, r) == [r EXCEPT !.log = lg \o r.log]

\* AbsPlacement::read_options: reads nothing, the target slot starts empty.
AbsPlacement_read_options(p, opts, args) == Ok(None, p, <<>>)

\* RelPlacement::read_options: adjusts its own copy of the arguments, then
\* delegates to AbsPlacement::read_options.
RelPlacement_read_options(p, opts, args) ==
    AbsPlacement_read_options(p, opts, <<args[1] + opts.offset, args[2]>>)

\* The second field of AbsFilePtr / RelFilePtr: inner, read with args
\* (ptr, args) once ptr has been read as r.
FilePtr_read_inner(t, p, r, opts, args) ==
    IF ~r.ok THEN r
    ELSE LET inner == IF t.k = "AbsFilePtr"
                      THEN AbsPlacement_read_options(r.pos, opts, <<r.val.v, args>>)
                      ELSE RelPlacement_read_options(r.pos, opts, <<r.val.v, args>>)
         IN  IF ~inner.ok THEN inner
             ELSE Ok(PtrV(t.k, r.val.v, inner.val), inner.pos,
                     <<[ev |-> "read", kind |-> t.k, at |-> p]>>)

\* #[derive(BinRead)] struct AbsFilePtr / RelFilePtr { ptr, inner }: the
\* fields are read in declaration order.
FilePtr_read_options(t, p, opts, args) ==
    FilePtr_read_inner(t, p, int_read_options(t.pw, p, opts), opts, args)

\* The element loop ending on a failed element with the elements read so far.
read_elems_step_short(ts, r, opts, args, acc) ==
    IF ~r.ok THEN Ok(SeqV(acc), r.pos, r.log)
    ELSE PrependLog(r.log, read_elems(Tail(ts), r.pos, opts, args, Append(acc, r.val)))

\* One turn of the element loop: r is the element just read; `?` ends the
\* loop on its failure, otherwise the next element is read where r ended.
read_elems_step(ts, r, opts, args, acc) ==
    IF ~r.ok THEN r
    ELSE PrependLog(r.log, read_elems(Tail(ts), r.pos, opts, args, Append(acc, r.val)))

\* The element-wise loop of arrays, tuples and Counted.
read_elems(ts, p, opts, args, acc) ==
    IF ts = <<>> THEN Ok(SeqV(acc), p, <<>>)
    ELSE read_elems_step(ts, read_options(Head(ts), p, opts, args), opts, args, acc)

\* Box::new(..) around the value read.
Box_new(r) == IF ~r.ok THEN r ELSE [r EXCEPT !.val = BoxV(r.val)]

\* impl BinRead for Box<T>: reads a T.
Box_read_options(t, p, opts, args) == Box_new(read_options(t.t, p, opts, args))

\* impl BinRead for Counted<B>: (0..count).map(read_options).collect().
Counted_read_options(t, p, opts, args) ==
    read_elems([i \in 1..args[1] |-> t.t], p, opts, args[2], <<>>)

\* binread_array_impl!: for i in 0..$size { arr[i] = read_options(..)? }.
Array_read_options(t, p, opts, args) ==
    read_elems([i \in 1..t.n |-> t.t], p, opts, args, <<>>)

\* binread_tuple_impl!: every member is read with args ().
Tuple_read_options(t, p, opts, args) ==
    read_elems(t.ts, p, opts, Unit, <<>>)

read_options(t, p, opts, args) ==
    CASE t.k = "int" -> int_read_options(t.size, p, opts)
      [] IsPtr(t) -> FilePtr_read_options(t, p, opts, args)
      [] t.k = "array" -> Array_read_options(t, p, opts, args)
      [] t.k = "tuple" -> Tuple_read_options(t, p, opts, args)
      [] t.k = "Box" -> Box_read_options(t, p, opts, args)
      [] t.k = "Counted" -> Counted_read_options(t, p, opts, args)

(* ----------------------- phase 2: after_parse ------------------------- *)

\* BinRead::after_parse (default): Ok(()), nothing moves.
default_after_parse(v, p) == Ok(v, p, <<>>)

\* The record of one AbsPlacement::after_parse: where it sought to, where
\* the stream was on entry and on return, and whether it returned Ok.
PlacementEvent(target, entry, exit, ok) ==
    [ev |-> "AbsPlacement", target |-> target, entry |-> entry, exit |-> exit, ok |-> ok]

\* r, the outcome of one AbsPlacement::after_parse, with its record in front.
LogPlacement(target, entry, r) ==
    PrependLog(<<PlacementEvent(target, entry, r.pos, r.ok)>>, r)

\* AbsPlacement::after_parse without its closing seek to `before`: the
\* stream stays where the target's resolve left it.
AbsPlacement_store_without_seek_back(value, before, lg, done) ==
    IF ~done.ok
    THEN Err(value, done.err, done.pos, lg \o done.log)
    ELSE Ok(Some(done.val), done.pos, lg \o done.log)

\* AbsPlacement::after_parse, from `inner.after_parse(..)?` on: done is the
\* outcome of the target's own after_parse; on Ok the slot is filled and
\* the stream is sought back to `before`.
AbsPlacement_store(value, before, lg, done) ==
    IF ~done.ok
    THEN Err(value, done.err, done.pos, lg \o done.log)
    ELSE Ok(Some(done.val), before, lg \o done.log)

\* AbsPlacement::after_parse, from `BinRead::read_options(..)?` on: inner is
\* the outcome of reading the target at the offset sought to.
AbsPlacement_resolve(value, t, before, opts, args, inner) ==
    IF ~inner.ok
    THEN Err(value, inner.err, inner.pos, inner.log)
    ELSE AbsPlacement_store(value, before, inner.log,
                            after_parse(inner.val, t, inner.pos, opts, args[2]))

\* AbsPlacement::after_parse: value is the target slot, t the target type,
\* args = (offset to seek to, the target's args), p the position on entry.
AbsPlacement_after_parse(value, t, p, opts, args) ==
    LogPlacement(args[1], p,
        AbsPlacement_resolve(value, t, p, opts, args,
                             read_options(t, args[1], opts, args[2])))

\* RelPlacement::after_parse as it would be if the adjustment read_options
\* made to its own copy of the args had been kept: the base is added twice.
RelPlacement_after_parse_base_twice(value, t, p, opts, args) ==
    AbsPlacement_after_parse(value, t, p, opts,
                             <<args[1] + opts.offset + opts.offset, args[2]>>)

\* RelPlacement::after_parse: args.0 += options.offset, then the absolute one.
RelPlacement_after_parse(value, t, p, opts, args) ==
    AbsPlacement_after_parse(value, t, p, opts, <<args[1] + opts.offset, args[2]>>)

\* The record of one resolve of a file pointer: its raw offset and the base
\* offset of the context it was resolved in.
FilePtrEvent(kind, raw, base) == [ev |-> "FilePtr", kind |-> kind, raw |-> raw, base |-> base]

\* The pointer with its slot as the placement left it.
FilePtr_with(v, t, opts, r) ==
    [r EXCEPT !.val = PtrV(t.k, v.ptr, r.val),
              !.log = <<FilePtrEvent(t.k, v.ptr, opts.offset)>> \o r.log]

\* The derived after_parse of AbsFilePtr / RelFilePtr: the fields are
\* resolved in declaration order, inner with args (ptr, args).
FilePtr_after_parse(v, t, p, opts, args) ==
    FilePtr_with(v, t, opts,
        IF t.k = "AbsFilePtr"
        THEN AbsPlacement_after_parse(v.value, t.t, p, opts, <<v.ptr, args>>)
        ELSE RelPlacement_after_parse(v.value, t.t, p, opts, <<v.ptr, args>>))

\* The resolve loop going on to the next element after a failed one.
after_parse_elems_step_lenient(vs, ts, r, opts, args, acc) ==
    PrependLog(r.log, after_parse_elems(Tail(vs), Tail(ts), r.pos, opts, args,
                                        Append(acc, r.val)))

\* One turn of the resolve loop: r is the outcome of the element's
\* after_parse; `?` ends the loop on its failure.
after_parse_elems_step(vs, ts, r, opts, args, acc) ==
    IF ~r.ok
    THEN [r EXCEPT !.val = SeqV(acc \o <<r.val>> \o Tail(vs))]
    ELSE PrependLog(r.log, after_parse_elems(Tail(vs), Tail(ts), r.pos, opts, args,
                                             Append(acc, r.val)))

\* The element-wise loop of arrays, tuples and Counted:
\* for val in self.iter_mut() { val.after_parse(..)? }.
after_parse_elems(vs, ts, p, opts, args, acc) ==
    IF vs = <<>> THEN Ok(SeqV(acc), p, <<>>)
    ELSE after_parse_elems_step(vs, ts, after_parse(Head(vs), Head(ts), p, opts, args),
                                opts, args, acc)

Array_after_parse(v, t, p, opts, args) ==
    after_parse_elems(v.items, [i \in 1..t.n |-> t.t], p, opts, args, <<>>)

Tuple_after_parse(v, t, p, opts, args) ==
    after_parse_elems(v.items, t.ts, p, opts, Unit, <<>>)

Counted_after_parse(v, t, p, opts, args) ==
    after_parse_elems(v.items, [i \in 1..Len(v.items) |-> t.t], p, opts, args[2], <<>>)

\* impl BinRead for Box<T> defines read_options only: after_parse is the
\* trait's default.
Box_after_parse(v, t, p, opts, args) == default_after_parse(v, p)

after_parse(v, t, p, opts, args) ==
    CASE t.k = "int" -> default_after_parse(v, p)
      [] IsPtr(t) -> FilePtr_after_parse(v, t, p, opts, args)
      [] t.k = "array" -> Array_after_parse(v, t, p, opts, args)
      [] t.k = "tuple" -> Tuple_after_parse(v, t, p, opts, args)
      [] t.k = "Box" -> Box_after_parse(v, t, p, opts, args)
      [] t.k = "Counted" -> Counted_after_parse(v, t, p, opts, args)

(* --------------------------- dereference ------------------------------ *)

Panic(msg) == [k |-> "panic", msg |-> msg]

\* deref_impl with unwrap_or_default in place of the panic.
deref_impl_or_default(value) ==
    IF value.k = "Some" THEN value.v
    ELSE IntV(0)

\* AbsPlacement::deref_impl, shared by Deref / DerefMut of all four pointers.
deref_impl(value) ==
    IF value.k = "Some" THEN value.v
    ELSE Panic("Deref'd before reading")

\* AbsFilePtr::into_inner: self.value.unwrap().
into_inner(v) ==
    IF v.value.k = "Some" THEN v.value.v
    ELSE Panic("called Option::unwrap() on a None value")

(* ---------------------- the types that are read ----------------------- *)

Ptr8U8 == AbsFilePtr(1, U8)

TypeSet ==
    { U8, U16,
      Ptr8U8, AbsFilePtr(2, U8), AbsFilePtr(1, U16),
      RelFilePtr(1, U8), RelFilePtr(2, U16),
      AbsFilePtr(1, Ptr8U8), RelFilePtr(1, RelFilePtr(1, U8)),
      Array(2, Ptr8U8), Tuple(<<Ptr8U8, U8>>), Tuple(<<RelFilePtr(1, U8), Ptr8U8>>),
      BoxOf(Ptr8U8), Counted(Ptr8U8), Counted(U8), Counted(U16) }

\* Ty::new(endian, TyEnd) / ReadOptions { endian, offset, .. }.
Options(endian, offset) == [endian |-> endian, offset |-> offset]

\* impl Default for Endian.
EndianDefault == "Native"

OptionsSet == {Options(e, o) : e \in Endians, o \in 0..MaxOffset}

(* ----------------- ReadOptions (binread/options.rs) ------------------ *)

\* The keys of the context: the built-in ones and two extension types.
BuiltinKeys == {"Endian", "VecCount", "FileOffset"}
ExtKeys == {"ExtA", "ExtB"}
Keys == BuiltinKeys \cup ExtKeys

\* The values a caller can insert under key K.
ValuesOf(K) ==
    CASE K = "Endian" -> Endians
      [] K = "VecCount" -> 0..MaxCount
      [] K = "FileOffset" -> 0..MaxOffset
      [] OTHER -> {0, 1}

\* #[derive(Default)] struct ReadOptions.
ReadOptions_default ==
    [endian |-> EndianDefault, count |-> None, offset |-> 0,
     ext |-> [K \in ExtKeys |-> None]]

\* ReadOptions::get taking an offset of 0 for an offset that is not there.
ReadOptions_get_nonzero_offset(self, K) ==
    CASE K = "Endian" -> Some(self.endian)
      [] K = "VecCount" -> self.count
      [] K = "FileOffset" -> IF self.offset = 0 THEN None ELSE Some(self.offset)
      [] OTHER -> self.ext[K]

\* ReadOptions::get.
ReadOptions_get(self, K) ==
    CASE K = "Endian" -> Some(self.endian)
      [] K = "VecCount" -> self.count
      [] K = "FileOffset" -> Some(self.offset)
      [] OTHER -> self.ext[K]

\* ReadOptions::insert_mut.
ReadOptions_insert_mut(self, K, value) ==
    CASE K = "Endian" -> [self EXCEPT !.endian = value]
      [] K = "VecCount" -> [self EXCEPT !.count = Some(value)]
      [] K = "FileOffset" -> [self EXCEPT !.offset = value]
      [] OTHER -> [self EXCEPT !.ext[K] = Some(value)]

\* self.clone().
ReadOptions_clone(self) == self

\* A call on &self that hands back a new context: the receiver after the
\* call and the context returned.
Derived(self, new) == [self |-> self, new |-> new]

\* ReadOptions::insert working on the receiver instead of a clone of it.
ReadOptions_insert_in_place(self, K, value) ==
    Derived(ReadOptions_insert_mut(self, K, value), ReadOptions_insert_mut(self, K, value))

\* ReadOptions::insert: clone, insert_mut on the clone, return it.
ReadOptions_insert(self, K, value) ==
    Derived(self, ReadOptions_insert_mut(ReadOptions_clone(self), K, value))

\* ReadOptions::remove_mut: the context after it and the bool it returns.
ReadOptions_remove_mut(self, K) ==
    CASE K = "Endian" -> [self |-> [self EXCEPT !.endian = EndianDefault], ret |-> TRUE]
      [] K = "VecCount" -> [self |-> [self EXCEPT !.count = None], ret |-> TRUE]
      [] K = "FileOffset" -> [self |-> [self EXCEPT !.offset = 0], ret |-> TRUE]
      [] OTHER -> [self |-> [self EXCEPT !.ext[K] = None], ret |-> self.ext[K] # None]

\* ReadOptions::remove: clone, remove_mut on the clone, return it.
ReadOptions_remove(self, K) ==
    Derived(self, ReadOptions_remove_mut(ReadOptions_clone(self), K).self)

\* ReadOptions::contains.
ReadOptions_contains(self, K) ==
    CASE K = "Endian" -> TRUE
      [] K = "VecCount" -> self.count # None
      [] K = "FileOffset" -> self.offset # 0
      [] OTHER -> self.ext[K] # None

\* The last operation on the context.
Op(name, K, value, ret) == [name |-> name, key |-> K, value |-> value, ret |-> ret]

\* cur: the context in hand; before and self: the receiver of the last
\* operation before and after it.
Ctx(cur, before, self, op) == [cur |-> cur, before |-> before, self |-> self, op |-> op]

CtxIdle ==
    Ctx(ReadOptions_default, ReadOptions_default, ReadOptions_default,
        Op("default", "Endian", None, None))

(* --------------------------- the state ------------------------------- *)

NoCall == [entry |-> "none", t |-> U8, opts |-> Options(EndianDefault, 0), args |-> Unit]
NoResult == [ok |-> FALSE, val |-> None, err |-> None]
EnumIdle == [cands |-> <<>>, policy |-> "default", idx |-> 0, saved |-> 0,
             errors |-> <<>>, attempts |-> <<>>]

Init ==
    /\ data \in Streams
    /\ pos = 0
    /\ targetLittle \in BOOLEAN
    /\ eofAdvances \in BOOLEAN
    /\ phase = "idle"
    /\ call = NoCall
    /\ result = NoResult
    /\ resolves = 0
    /\ log = <<>>
    /\ derefOut = None
    /\ enum = EnumIdle
    /\ ctx = CtxIdle

\* The caller receives r: the stream is left where r left it.
Return(entry, t, opts, args, r, n) ==
    /\ phase' = "returned"
    /\ call' = [entry |-> entry, t |-> t, opts |-> opts, args |-> args]
    /\ result' = [ok |-> r.ok, val |-> r.val, err |-> r.err]
    /\ pos' = r.pos
    /\ log' = r.log
    /\ resolves' = n
    /\ UNCHANGED <<ctx, data, targetLittle, eofAdvances, derefOut, enum>>

\* panic!("Must pass args, no args_default implemented") and every other panic.
PanicWith(entry, t, opts, msg) ==
    /\ phase' = "panicked"
    /\ call' = [entry |-> entry, t |-> t, opts |-> opts, args |-> Unit]
    /\ derefOut' = Panic(msg)
    /\ UNCHANGED <<ctx, data, pos, targetLittle, eofAdvances, result, resolves, log, enum>>

(* ------------------------- the entry points --------------------------- *)

\* BinReadExt::read.
BinReadExt_read ==
    \E t \in TypeSet :
        LET opts == Options(EndianDefault, 0)
            dflt == args_default(t)
        IN  /\ phase = "idle"
            /\ IF dflt = None
               THEN PanicWith("read", t, opts, "Must pass args")
               ELSE Return("read", t, opts, dflt.v,
                           read_options(t, pos, opts, dflt.v), 0)

\* BinReadExt::read_args.
BinReadExt_read_args ==
    \E t \in TypeSet : \E args \in ArgsOf(t) :
        LET opts == Options(EndianDefault, 0)
        IN  /\ phase = "idle"
            /\ Return("read_args", t, opts, args, read_options(t, pos, opts, args), 0)

\* BinReaderExt::read_type without its after_parse call, as BinReadExt::read is.
read_type_without_after_parse(t, options, args, res) == [r |-> res, n |-> 0]

\* BinReaderExt::read_type from `res.after_parse(..)?` on: done is its outcome.
read_type_done(res, done) ==
    [r |-> [done EXCEPT !.log = res.log \o done.log,
                        !.val = IF done.ok THEN done.val ELSE None],
     n |-> 1]

\* BinReaderExt::read_type from `T::read_options(..)?` on: res is its outcome.
read_type_resolve(t, options, args, res) ==
    IF ~res.ok THEN [r |-> res, n |-> 0]
    ELSE read_type_done(res, after_parse(res.val, t, res.pos, options, args))

\* The body of BinReaderExt::read_type: read_options, then after_parse on
\* the value read, each followed by `?`.
read_type(t, endian, args) ==
    read_type_resolve(t, Options(endian, 0), args,
                      read_options(t, pos, Options(endian, 0), args))

\* BinReaderExt::read_type returning out to its caller.
ReadTypeReturn(entry, t, endian, args, out) ==
    Return(entry, t, Options(endian, 0), args, out.r, out.n)

ReadTypeAs(entry, endian) ==
    \E t \in TypeSet :
        LET dflt == args_default(t)
        IN  /\ phase = "idle"
            /\ IF dflt = None
               THEN PanicWith(entry, t, Options(endian, 0), "Must pass args")
               ELSE ReadTypeReturn(entry, t, endian, dflt.v, read_type(t, endian, dflt.v))

BinReaderExt_read_type == \E endian \in Endians : ReadTypeAs("read_type", endian)
BinReaderExt_read_be == ReadTypeAs("read_be", "Big")
BinReaderExt_read_le == ReadTypeAs("read_le", "Little")
BinReaderExt_read_ne == ReadTypeAs("read_ne", "Native")

\* BinRead::read_options called directly, with options of the caller's choice.
BinRead_read_options ==
    \E t \in TypeSet : \E opts \in OptionsSet : \E args \in ArgsOf(t) :
        /\ phase = "idle"
        /\ Return("read_options", t, opts, args, read_options(t, pos, opts, args), 0)

\* The holder's value after its after_parse returned r: the value stays
\* held, result.err is the error of that after_parse (None if it was Ok).
Resolved(r) ==
    /\ result' = [result EXCEPT !.val = r.val, !.err = r.err]
    /\ pos' = r.pos
    /\ log' = log \o r.log
    /\ resolves' = resolves + 1
    /\ phase' = "resolved"

\* BinRead::after_parse called by the holder of a value that was read, with
\* the options and arguments of its read.
BinRead_after_parse ==
    /\ phase \in {"returned", "resolved"}
    /\ result.ok
    /\ call.entry # "parse"
    /\ resolves < MaxResolves
    /\ Resolved(after_parse(result.val, call.t, pos, call.opts, call.args))
    /\ UNCHANGED <<ctx, data, targetLittle, eofAdvances, call, derefOut, enum>>

\* AbsFilePtr::parse from `ptr.after_parse(..)?` on: seek back, into_inner.
parse_done(ptr, done) ==
    IF ~done.ok THEN [done EXCEPT !.val = None, !.log = ptr.log \o done.log]
    ELSE Ok(into_inner(done.val), ptr.pos, ptr.log \o done.log)

\* AbsFilePtr::parse from `Self::read_options(..)?` on.
parse_resolve(t, opts, args, ptr) ==
    IF ~ptr.ok THEN [r |-> ptr, n |-> 0]
    ELSE [r |-> parse_done(ptr, after_parse(ptr.val, t, ptr.pos, opts, args)), n |-> 1]

\* AbsFilePtr::parse returning out to its caller.
ParseReturn(t, opts, args, out) == Return("parse", t, opts, args, out.r, out.n)

\* AbsFilePtr::parse: read the pointer, resolve it, seek back, into_inner.
AbsFilePtr_parse ==
    \E t \in {x \in TypeSet : x.k = "AbsFilePtr"} :
      \E opts \in OptionsSet : \E args \in ArgsOf(t) :
        /\ phase = "idle"
        /\ ParseReturn(t, opts, args,
                       parse_resolve(t, opts, args, read_options(t, pos, opts, args)))

\* Deref::deref / DerefMut::deref_mut of the pointer the caller holds.
Deref ==
    /\ phase \in {"returned", "resolved"}
    /\ result.ok
    /\ call.entry # "parse"
    /\ IsPtr(call.t)
    /\ derefOut' = deref_impl(result.val.value)
    /\ phase' = IF derefOut'.k = "panic" THEN "panicked" ELSE "derefed"
    /\ UNCHANGED <<ctx, data, pos, targetLittle, eofAdvances, call, result, resolves, log, enum>>

NextRead ==
    \/ BinReadExt_read
    \/ BinReadExt_read_args
    \/ BinReaderExt_read_type
    \/ BinReaderExt_read_be
    \/ BinReaderExt_read_le
    \/ BinReaderExt_read_ne
    \/ BinRead_read_options
    \/ BinRead_after_parse
    \/ AbsFilePtr_parse
    \/ Deref

SpecRead == Init /\ [][NextRead]_vars

(* ------------------ variant resolution of derived enums --------------- *)
\* The code #[derive(BinRead)] generates for an enum is not part of the
\* source tree: this part follows section 4.6 of the design document, over
\* the enums of src/binread/tests/derive_enum.rs, and reads magics and
\* fields with the codec above.

MaxEnumLen == 5
MaxStart == 1

EnumBytes == {0, 1, 2}
EnumStreams == SeqsUpTo(EnumBytes, MaxEnumLen)

Inherit == "Inherit"
Magic(size, v) == Some([size |-> size, v |-> v])
Variant(name, endian, magic, fields) ==
    [name |-> name, endian |-> endian, magic |-> magic, fields |-> fields]
EnumDef(name, endian, cands) == [name |-> name, endian |-> endian, cands |-> cands]

\* #[br(big)] enum Test { #[br(magic(0u8))] Zero, #[br(magic(2u8))] Two { a: u16, b: u16 } }
mixed_enum ==
    EnumDef("mixed_enum", "Big",
            << Variant("Zero", Inherit, Magic(1, 0), <<>>),
               Variant("Two", Inherit, Magic(1, 2), <<U16, U16>>) >>)

\* #[br(big)] enum Test { #[br(magic(1u16))] OneBig,
\*                        #[br(little, magic(2u16))] TwoLittle { a: u16 } }
enum_endianness ==
    EnumDef("enum_endianness", "Big",
            << Variant("OneBig", Inherit, Magic(2, 1), <<>>),
               Variant("TwoLittle", "Little", Magic(2, 2), <<U16>>) >>)

\* #[br(big)] enum Test { #[br(magic(0u16))] One { a: u16 },
\*                        #[br(magic(1u16))] Two { a: u16 } }
enum_return_errors ==
    EnumDef("enum_return_errors", "Big",
            << Variant("One", Inherit, Magic(2, 0), <<U16>>),
               Variant("Two", Inherit, Magic(2, 1), <<U16>>) >>)

\* An enum with no byte order of its own whose last candidate has no magic.
enum_catch_all ==
    EnumDef("enum_catch_all", Inherit,
            << Variant("Tagged", Inherit, Magic(1, 1), <<U8>>),
               Variant("Other", Inherit, None, <<>>) >>)

\* The same with a last candidate that has fields to read.
enum_catch_all_fields ==
    EnumDef("enum_catch_all_fields", Inherit,
            << Variant("Tagged", Inherit, Magic(1, 1), <<U8>>),
               Variant("Rest", Inherit, None, <<U16>>) >>)

EnumDefs ==
    {mixed_enum, enum_endianness, enum_return_errors, enum_catch_all, enum_catch_all_fields}

Policies == {"default", "return_all_errors", "return_unexpected_error"}

VariantV(name, fields) == [k |-> "variant", name |-> name, fields |-> fields]

BadMagic(p, found) == [k |-> "BadMagic", pos |-> p, found |-> found]
EnumErrors(p, errs) == [k |-> "EnumErrors", pos |-> p, variant_errors |-> errs]
NoVariantMatch(p) == [k |-> "NoVariantMatch", pos |-> p]

\* The order of precedence of byte orders: variant-level, top-level,
\* configured.
VariantEndian(e, c, opts) ==
    IF c.endian # Inherit THEN c.endian
    ELSE IF e.endian # Inherit THEN e.endian
    ELSE opts.endian

\* The candidate's value, or its failure.
as_variant(c, r) ==
    IF ~r.ok THEN [r EXCEPT !.val = None]
    ELSE [r EXCEPT !.val = VariantV(c.name, r.val.items)]

\* The magic check: r is the outcome of decoding the magic at p; a mismatch
\* is BadMagic at p with the value decoded.
check_magic(c, p, r) ==
    IF ~r.ok THEN r
    ELSE IF r.val.v # c.magic.v.v THEN Err(None, BadMagic(p, r.val.v), r.pos, <<>>)
    ELSE r

\* The candidate's fields, read in declaration order where the magic ended.
read_variant_fields(c, opts, m) ==
    IF ~m.ok THEN m
    ELSE as_variant(c, read_elems(c.fields, m.pos, opts, Unit, <<>>))

\* One candidate's full read at p under opts.
read_variant_with(c, p, opts) ==
    IF c.magic = None
    THEN as_variant(c, read_elems(c.fields, p, opts, Unit, <<>>))
    ELSE read_variant_fields(c, opts,
             check_magic(c, p, int_read_options(c.magic.v.size, p, opts)))

read_variant(e, c, p, opts) ==
    read_variant_with(c, p, Options(VariantEndian(e, c, opts), opts.offset))

\* Step 3 with a reduced-detail policy that lets a lone candidate failure
\* that is not a magic mismatch through unreduced.
no_variant_error_passing_io(e) ==
    IF e.policy = "return_unexpected_error"
    THEN IF \E j \in 1..Len(e.errors) : e.errors[j][2].k # "BadMagic"
         THEN IoError
         ELSE NoVariantMatch(e.saved)
    ELSE EnumErrors(e.saved, e.errors)

\* Step 3 with the reduced-detail rule applied whenever collect-all was not
\* asked for by name.
no_variant_error_default_reduced(e) ==
    IF e.policy = "return_all_errors"
    THEN EnumErrors(e.saved, e.errors)
    ELSE NoVariantMatch(e.saved)

\* Step 3: the final error under the active policy.
no_variant_error(e) ==
    IF e.policy = "return_unexpected_error"
    THEN NoVariantMatch(e.saved)
    ELSE EnumErrors(e.saved, e.errors)

\* Steps 2 and 3 as one function of the input: the outcome of resolving
\* enum e from candidate i on, errs being the failures recorded so far.
RECURSIVE resolve_from(_, _, _)
resolve_step(e, i, errs, r) ==
    IF r.ok THEN Ok(r.val, r.pos, <<>>)
    ELSE resolve_from(e, i + 1, Append(errs, <<e.cands[i].name, r.err>>))

resolve_from(e, i, errs) ==
    IF i > Len(e.cands)
    THEN Err(None, no_variant_error([e EXCEPT !.errors = errs]), e.saved, <<>>)
    ELSE resolve_step(e, i, errs,
                      read_variant(e, e.cands[i], e.saved, Options(EndianDefault, 0)))

Min(a, b) == IF a <= b THEN a ELSE b

InitEnum ==
    /\ data \in EnumStreams
    /\ pos \in 0..Min(MaxStart, Len(data))
    /\ targetLittle \in BOOLEAN
    /\ eofAdvances \in BOOLEAN
    /\ phase = "idle"
    /\ call = NoCall
    /\ result = NoResult
    /\ resolves = 0
    /\ log = <<>>
    /\ derefOut = None
    /\ enum = EnumIdle
    /\ ctx = CtxIdle

\* Step 1 of Test::read(&mut reader): the stream position is saved.
EnumStart ==
    /\ phase = "idle"
    /\ \E def \in EnumDefs, policy \in Policies :
          /\ enum' = [name |-> def.name, endian |-> def.endian, cands |-> def.cands,
                      policy |-> policy, idx |-> 1, saved |-> pos,
                      errors |-> <<>>, attempts |-> <<>>]
          /\ call' = [entry |-> "read", t |-> [k |-> "enum", name |-> def.name],
                      opts |-> Options(EndianDefault, 0), args |-> Unit]
    /\ phase' = "probing"
    /\ UNCHANGED <<ctx, data, pos, targetLittle, eofAdvances, result, resolves, log, derefOut>>

\* The record of one attempt: where the candidate's read started and where
\* it left the stream.
Attempt(c, r) == [name |-> c.name, start |-> pos, end |-> r.pos, ok |-> r.ok]

\* Step 2, failure, without the seek back to the saved position.
CandidateFailed_without_restore(c, r) ==
    /\ enum' = [enum EXCEPT !.errors = Append(@, <<c.name, r.err>>),
                            !.attempts = Append(@, Attempt(c, r)),
                            !.idx = @ + 1]
    /\ pos' = r.pos
    /\ UNCHANGED <<phase, result>>

\* Step 2, failure: record (name, error), restore the saved position and
\* go on to the next candidate.
CandidateFailed(c, r) ==
    /\ enum' = [enum EXCEPT !.errors = Append(@, <<c.name, r.err>>),
                            !.attempts = Append(@, Attempt(c, r)),
                            !.idx = @ + 1]
    /\ pos' = enum.saved
    /\ UNCHANGED <<phase, result>>

\* Step 2, success: commit to the candidate.
CandidateCommitted(c, r) ==
    /\ enum' = [enum EXCEPT !.attempts = Append(@, Attempt(c, r))]
    /\ pos' = r.pos
    /\ phase' = "returned"
    /\ result' = [ok |-> TRUE, val |-> r.val, err |-> None]

Tried(c, r) == IF r.ok THEN CandidateCommitted(c, r) ELSE CandidateFailed(c, r)

\* Step 2: the next candidate in declaration order is attempted.
TryCandidate ==
    /\ phase = "probing"
    /\ enum.idx <= Len(enum.cands)
    /\ Tried(enum.cands[enum.idx],
             read_variant(enum, enum.cands[enum.idx], pos, call.opts))
    /\ UNCHANGED <<ctx, data, targetLittle, eofAdvances, call, resolves, log, derefOut>>

\* Step 3: no candidate succeeded.
EnumFail ==
    /\ phase = "probing"
    /\ enum.idx > Len(enum.cands)
    /\ result' = [ok |-> FALSE, val |-> None, err |-> no_variant_error(enum)]
    /\ phase' = "returned"
    /\ UNCHANGED <<ctx, data, pos, targetLittle, eofAdvances, call, resolves, log,
                   derefOut, enum>>

NextEnum ==
    \/ EnumStart
    \/ TryCandidate
    \/ EnumFail

SpecEnum == InitEnum /\ [][NextEnum]_vars

(* ------------------ byte-order marks and set_opts --------------------- *)

MaxWords == 4

\* The two-byte words the streams below are made of: the two byte-order
\* marks, a word that is neither, and the payload of tests/opts.rs.
BomWords == {<<255, 254>>, <<254, 255>>, <<254, 254>>, <<1, 5>>}

RECURSIVE WordStreams(_)
WordStreams(n) ==
    IF n = 0 THEN {<<>>}
    ELSE LET shorter == WordStreams(n - 1)
         IN  shorter \cup {w \o s : w \in BomWords, s \in {x \in shorter : Len(x) = 2 * (n - 1)}}

BomStreams == WordStreams(MaxWords)

EndianV(e) == [k |-> "Endian", v |-> e]

\* Endian::from_be_bom.
from_be_bom(bom) ==
    CASE bom = 65279 -> Some("Big")
      [] bom = 65534 -> Some("Little")
      [] OTHER -> None

\* Endian::parse_bom with the BadMagic position taken after the read.
parse_bom_pos_after_read(p, bom) ==
    IF ~bom.ok THEN bom
    ELSE IF from_be_bom(bom.val.v) = None
         THEN Err(None, BadMagic(bom.pos, bom.val.v), bom.pos, <<>>)
         ELSE Ok(EndianV(from_be_bom(bom.val.v).v), bom.pos, <<>>)

\* Endian::parse_bom from `u16::read_options(..)?` on: bom is its outcome,
\* p the position taken before it.
parse_bom_found(p, bom) ==
    IF ~bom.ok THEN bom
    ELSE IF from_be_bom(bom.val.v) = None
         THEN Err(None, BadMagic(p, bom.val.v), bom.pos, <<>>)
         ELSE Ok(EndianV(from_be_bom(bom.val.v).v), bom.pos, <<>>)

\* Endian::parse_bom reading the mark under the caller's byte order.
parse_bom_as_configured(p, opts) ==
    parse_bom_found(p, int_read_options(2, p, opts))

\* Endian::parse_bom: the mark is read as a big-endian u16 whatever the
\* options passed in say.
parse_bom(p, opts) ==
    parse_bom_found(p, int_read_options(2, p, [opts EXCEPT !.endian = "Big"]))

\* A field of a derived record: its type, its parse_with function and
\* whether set_opts(Endian = <field>) follows it.
Field(t, parse_with, set_opts) == [t |-> t, parse_with |-> parse_with, set_opts |-> set_opts]
Record(name, fields) == [k |-> "record", name |-> name, fields |-> fields]
EndianT == [k |-> "Endian"]

\* struct EndianTest { #[br(parse_with = Endian::parse_bom, set_opts(Endian = bom))]
\*                     bom: Endian, test: u16 }
EndianTest ==
    Record("EndianTest", << Field(EndianT, "parse_bom", TRUE), Field(U16, "default", FALSE) >>)

\* struct Around { before: u16, inner: EndianTest, after: u16 }: a field
\* before the override and a later sibling of the record that holds it.
Around ==
    Record("Around", << Field(U16, "default", FALSE), Field(EndianTest, "default", FALSE),
                        Field(U16, "default", FALSE) >>)

RecordTypes == {EndianTest, Around}

RECURSIVE Record_read_options(_, _, _)
RECURSIVE Record_read_fields(_, _, _, _)

\* One field, read at p under the options in force for it.
read_field(f, p, opts) ==
    CASE f.parse_with = "parse_bom" -> parse_bom(p, opts)
      [] f.t.k = "record" -> Record_read_options(f.t, p, opts)
      [] OTHER -> read_options(f.t, p, opts, Unit)

\* The options in force after field f, whose value is v.
opts_after(f, v, opts) == IF f.set_opts THEN [opts EXCEPT !.endian = v.v] ELSE opts

\* One turn of the field loop: r is the outcome of the field just read.
read_fields_step(fs, r, opts, acc) ==
    IF ~r.ok THEN r
    ELSE Record_read_fields(Tail(fs), r.pos, opts_after(Head(fs), r.val, opts),
                            Append(acc, r.val))

\* The fields of a record, read in declaration order.
Record_read_fields(fs, p, opts, acc) ==
    IF fs = <<>> THEN Ok(SeqV(acc), p, <<>>)
    ELSE read_fields_step(fs, read_field(Head(fs), p, opts), opts, acc)

\* The derived read_options of a record.
Record_read_options(t, p, opts) == Record_read_fields(t.fields, p, opts, <<>>)

InitBom ==
    /\ data \in BomStreams
    /\ pos \in 0..Min(MaxStart, Len(data))
    /\ targetLittle \in BOOLEAN
    /\ eofAdvances \in BOOLEAN
    /\ phase = "idle"
    /\ call = NoCall
    /\ result = NoResult
    /\ resolves = 0
    /\ log = <<>>
    /\ derefOut = None
    /\ enum = EnumIdle
    /\ ctx = CtxIdle

\* The position at which the call in progress was entered.
EntryEvent(entry) == [ev |-> entry, at |-> pos]

\* Endian::parse_bom called with any options.
Endian_parse_bom ==
    /\ phase = "idle"
    /\ \E opts \in OptionsSet :
          Return("parse_bom", EndianT, opts, Unit,
                 PrependLog(<<EntryEvent("parse_bom")>>, parse_bom(pos, opts)), 0)

\* BinReaderExt::read_type (read_be, read_le, read_ne) of a derived record,
\* none of whose fields has anything to resolve.
ReadRecord ==
    /\ phase = "idle"
    /\ \E t \in RecordTypes, endian \in Endians :
          Return("read_type", t, Options(endian, 0), Unit,
                 PrependLog(<<EntryEvent("read_type")>>,
                            Record_read_options(t, pos, Options(endian, 0))), 1)

NextBom ==
    \/ Endian_parse_bom
    \/ ReadRecord
    \/ EnumStart
    \/ TryCandidate
    \/ EnumFail

SpecBom == InitBom /\ [][NextBom]_vars

(* ------------------- operations on a ReadOptions ---------------------- *)

\* The context returned by insert / remove becomes the one in hand.
Derive(name, K, value, d) ==
    ctx' = Ctx(d.new, ctx.cur, d.self, Op(name, K, value, None))

\* The context in hand was changed in place.
Mutate(name, K, value, self, ret) ==
    ctx' = Ctx(self, ctx.cur, self, Op(name, K, value, ret))

OptionsUnchanged ==
    UNCHANGED <<data, pos, targetLittle, eofAdvances, phase, call, result,
                resolves, log, derefOut, enum>>

ReadOptions_do_insert ==
    /\ \E K \in Keys : \E value \in ValuesOf(K) :
          Derive("insert", K, value, ReadOptions_insert(ctx.cur, K, value))
    /\ OptionsUnchanged

ReadOptions_do_remove ==
    /\ \E K \in Keys : Derive("remove", K, None, ReadOptions_remove(ctx.cur, K))
    /\ OptionsUnchanged

ReadOptions_do_insert_mut ==
    /\ \E K \in Keys : \E value \in ValuesOf(K) :
          Mutate("insert_mut", K, value, ReadOptions_insert_mut(ctx.cur, K, value), None)
    /\ OptionsUnchanged

ReadOptions_do_remove_mut ==
    /\ \E K \in Keys :
          Mutate("remove_mut", K, None, ReadOptions_remove_mut(ctx.cur, K).self,
                 ReadOptions_remove_mut(ctx.cur, K).ret)
    /\ OptionsUnchanged

InitOptions ==
    /\ data = <<>>
    /\ pos = 0
    /\ targetLittle \in BOOLEAN
    /\ eofAdvances = FALSE
    /\ phase = "idle"
    /\ call = NoCall
    /\ result = NoResult
    /\ resolves = 0
    /\ log = <<>>
    /\ derefOut = None
    /\ enum = EnumIdle
    /\ ctx = CtxIdle

NextOptions ==
    \/ ReadOptions_do_insert
    \/ ReadOptions_do_remove
    \/ ReadOptions_do_insert_mut
    \/ ReadOptions_do_remove_mut

SpecOptions == InitOptions /\ [][NextOptions]_vars

(* ------------------- primitives anywhere in a stream ------------------ *)

\* The types of binread_impl! that are modelled.
PrimTypes == {U8, U16}

InitPrim ==
    /\ data \in Streams
    /\ pos \in 0..Len(data)
    /\ targetLittle \in BOOLEAN
    /\ eofAdvances \in BOOLEAN
    /\ phase = "idle"
    /\ call = NoCall
    /\ result = NoResult
    /\ resolves = 0
    /\ log = <<>>
    /\ derefOut = None
    /\ enum = EnumIdle
    /\ ctx = CtxIdle

\* <$type_name as BinRead>::read_options at the current position.
Primitive_read_options ==
    \E t \in PrimTypes : \E endian \in Endians :
        /\ phase = "idle"
        /\ Return("read_options", t, Options(endian, 0), Unit,
                  [read_options(t, pos, Options(endian, 0), Unit)
                      EXCEPT !.log = <<EntryEvent("read_options")>>], 0)

NextPrim == Primitive_read_options

SpecPrim == InitPrim /\ [][NextPrim]_vars

(* --------------------- Punctuated (helpers/punctuated.rs) ------------- *)

MaxPunct == 3

\* struct Punctuated { data, seperators }.
PunctV(d, s) == [k |-> "Punctuated", data |-> d, seperators |-> s]

\* A call of one of the two parsers: the element type T, the separator type
\* P, the options and the (count, args) it was given.
PunctCall(T, P, trailing, opts, args) ==
    [T |-> T, P |-> P, trailing |-> trailing, opts |-> opts,
     count |-> args[1], args |-> args[2]]

\* One read_options of the loop, as result r of a read entered at p.
PunctRead(kind, p, r) ==
    [r EXCEPT !.log = <<[ev |-> kind, at |-> p, ok |-> r.ok, exit |-> r.pos]>>]

\* separated reading a separator after the last element as well.
needs_sep_always(c, i) == TRUE

\* separated: `if i + 1 != count`; separated_trailing: every turn.
needs_sep(c, i) == IF c.trailing THEN TRUE ELSE i + 1 # c.count

RECURSIVE punct_loop(_, _, _, _, _)

\* seperators.push(..) leaving the separator out.
punct_sep_dropped(c, i, r, d, s) ==
    IF ~r.ok THEN r
    ELSE PrependLog(r.log, punct_loop(c, i + 1, r.pos, d, s))

\* seperators.push(P::read_options(reader, options, ())?), then the next turn.
punct_sep(c, i, r, d, s) ==
    IF ~r.ok THEN r
    ELSE PrependLog(r.log, punct_loop(c, i + 1, r.pos, d, Append(s, r.val)))

\* The loop returning what it has when an element cannot be read.
punct_elem_short(c, i, r, d, s) ==
    IF ~r.ok THEN Ok(PunctV(d, s), r.pos, r.log)
    ELSE IF needs_sep(c, i)
    THEN PrependLog(r.log,
             punct_sep(c, i, PunctRead("sep", r.pos, read_options(c.P, r.pos, c.opts, Unit)),
                       Append(d, r.val), s))
    ELSE PrependLog(r.log, punct_loop(c, i + 1, r.pos, Append(d, r.val), s))

\* data.push(T::read_options(reader, options, args)?), then the separator.
punct_elem(c, i, r, d, s) ==
    IF ~r.ok THEN r
    ELSE IF needs_sep(c, i)
    THEN PrependLog(r.log,
             punct_sep(c, i, PunctRead("sep", r.pos, read_options(c.P, r.pos, c.opts, Unit)),
                       Append(d, r.val), s))
    ELSE PrependLog(r.log, punct_loop(c, i + 1, r.pos, Append(d, r.val), s))

\* for i in 0..count { .. }; Ok(Self { data, seperators }).
punct_loop(c, i, p, d, s) ==
    IF i >= c.count THEN Ok(PunctV(d, s), p, <<>>)
    ELSE punct_elem(c, i, PunctRead("elem", p, read_options(c.T, p, c.opts, c.args)), d, s)

\* Punctuated::separated.
Punctuated_separated(T, P, p, opts, args) ==
    punct_loop(PunctCall(T, P, FALSE, opts, args), 0, p, <<>>, <<>>)

\* Punctuated::separated_trailing.
Punctuated_separated_trailing(T, P, p, opts, args) ==
    punct_loop(PunctCall(T, P, TRUE, opts, args), 0, p, <<>>, <<>>)

\* The Punctuated<T, P> that are parsed, as [k, t, p].
PunctOf(T, P) == [k |-> "Punctuated", t |-> T, p |-> P]
PunctTypes == {PunctOf(U8, U8), PunctOf(U16, U8), PunctOf(U8, U16)}
PunctOptions == {Options("Big", 0), Options("Little", 0)}

InitPunct ==
    /\ data \in EnumStreams
    /\ pos \in 0..Min(MaxStart, Len(data))
    /\ targetLittle \in BOOLEAN
    /\ eofAdvances \in BOOLEAN
    /\ phase = "idle"
    /\ call = NoCall
    /\ result = NoResult
    /\ resolves = 0
    /\ log = <<>>
    /\ derefOut = None
    /\ enum = EnumIdle
    /\ ctx = CtxIdle

\* The parser returns r to its caller, the position it was entered at kept
\* in front of the reads it made.
PunctReturn(entry, t, opts, args, r) ==
    Return(entry, t, opts, args, [r EXCEPT !.log = <<EntryEvent(entry)>> \o r.log], 0)

Punctuated_separated_call ==
    \E t \in PunctTypes : \E opts \in PunctOptions : \E count \in 0..MaxPunct :
        /\ phase = "idle"
        /\ PunctReturn("separated", t, opts, <<count, Unit>>,
                       Punctuated_separated(t.t, t.p, pos, opts, <<count, Unit>>))

Punctuated_separated_trailing_call ==
    \E t \in PunctTypes : \E opts \in PunctOptions : \E count \in 0..MaxPunct :
        /\ phase = "idle"
        /\ PunctReturn("separated_trailing", t, opts, <<count, Unit>>,
                       Punctuated_separated_trailing(t.t, t.p, pos, opts, <<count, Unit>>))

NextPunct ==
    \/ Punctuated_separated_call
    \/ Punctuated_separated_trailing_call

SpecPunct == InitPunct /\ [][NextPunct]_vars

(* ----------------- the layered context (options.rs) ------------------- *)

\* The tails of a chain: () and HashTrieMap<TypeId, Box<dyn Any>>.
UnitTail == [k |-> "unit"]
MapTail(m) == [k |-> "map", map |-> m]

\* OptionsNode { val, rest } with val of type ty.
OptionsNode(ty, val, rest) == [k |-> "node", ty |-> ty, val |-> val, rest |-> rest]

\* The values of each key's type: VecCount(pub Option<usize>), FileOffset(pub u64).
NodeValuesOf(K) ==
    CASE K = "Endian" -> Endians
      [] K = "VecCount" -> {None} \cup {Some(n) : n \in 0..MaxCount}
      [] K = "FileOffset" -> 0..MaxOffset
      [] OTHER -> {0, 1}

\* #[derive(Default)]: Endian::default(), VecCount(None), FileOffset(0).
NodeDefault(K) ==
    CASE K = "Endian" -> EndianDefault
      [] K = "VecCount" -> None
      [] K = "FileOffset" -> 0

\* BasicReadOptions<Rest>::default().
BasicReadOptions(rest) ==
    OptionsNode("Endian", NodeDefault("Endian"),
        OptionsNode("VecCount", NodeDefault("VecCount"),
            OptionsNode("FileOffset", NodeDefault("FileOffset"), rest)))

HashTrieMap_default == MapTail([K \in Keys |-> None])

\* The chains a program starts from: the two ReadOptions, the bare tails, a
\* one-node chain over the map and a chain with two nodes of one type.
ChainDefaults ==
    << BasicReadOptions(UnitTail), BasicReadOptions(HashTrieMap_default),
       UnitTail, HashTrieMap_default,
       OptionsNode("Endian", NodeDefault("Endian"), HashTrieMap_default),
       OptionsNode("FileOffset", NodeDefault("FileOffset"),
           OptionsNode("FileOffset", NodeDefault("FileOffset"), UnitTail)) >>

RECURSIVE OptionsCollection_get(_, _)
RECURSIVE OptionsCollection_insert(_, _, _)
RECURSIVE OptionsCollection_contains(_, _)

\* OptionsCollection::get for (), HashTrieMap and OptionsNode.
OptionsCollection_get(self, K) ==
    CASE self.k = "unit" -> None
      [] self.k = "map" -> self.map[K]
      [] self.k = "node" ->
            IF self.ty = K THEN Some(self.val) ELSE OptionsCollection_get(self.rest, K)

\* insert for () answering true.
Unit_insert_accepting(self, K, value) == [self |-> self, ret |-> TRUE]

\* OptionsCollection::insert for (): the value is dropped.
Unit_insert(self, K, value) == [self |-> self, ret |-> FALSE]

\* OptionsCollection::insert for HashTrieMap.
HashTrieMap_insert(self, K, value) ==
    [self |-> MapTail([self.map EXCEPT ![K] = Some(value)]), ret |-> TRUE]

\* OptionsNode::insert, else branch: r is what self.rest.insert(value) did.
OptionsNode_insert_rest(self, r) == [self |-> [self EXCEPT !.rest = r.self], ret |-> r.ret]

\* OptionsCollection::insert for (), HashTrieMap and OptionsNode.
OptionsCollection_insert(self, K, value) ==
    CASE self.k = "unit" -> Unit_insert(self, K, value)
      [] self.k = "map" -> HashTrieMap_insert(self, K, value)
      [] self.k = "node" ->
            IF self.ty = K THEN [self |-> [self EXCEPT !.val = value], ret |-> TRUE]
            ELSE OptionsNode_insert_rest(self, OptionsCollection_insert(self.rest, K, value))

\* OptionsCollection::contains for (), HashTrieMap and OptionsNode.
OptionsCollection_contains(self, K) ==
    CASE self.k = "unit" -> FALSE
      [] self.k = "map" -> self.map[K] # None
      [] self.k = "node" ->
            IF self.ty = K THEN TRUE ELSE OptionsCollection_contains(self.rest, K)

InitChain ==
    /\ data = <<>>
    /\ pos = 0
    /\ targetLittle \in BOOLEAN
    /\ eofAdvances = FALSE
    /\ phase = "idle"
    /\ call = NoCall
    /\ result = NoResult
    /\ resolves = 0
    /\ log = <<>>
    /\ derefOut = None
    /\ enum = EnumIdle
    /\ \E i \in 1..Len(ChainDefaults) :
          ctx = Ctx(ChainDefaults[i], ChainDefaults[i], ChainDefaults[i],
                    Op("default", "Endian", None, None))

\* options.insert(value) on the chain in hand.
OptionsCollection_do_insert ==
    /\ \E K \in Keys : \E value \in NodeValuesOf(K) :
          Mutate("insert", K, value,
                 OptionsCollection_insert(ctx.cur, K, value).self,
                 OptionsCollection_insert(ctx.cur, K, value).ret)
    /\ OptionsUnchanged

NextChain == OptionsCollection_do_insert

SpecChain == InitChain /\ [][NextChain]_vars

(* ===================== claims on the read entry points ================= *)

ReadTypeEntries == {"read_type", "read_be", "read_le", "read_ne"}
TopLevelEntries == {"read", "read_args"} \cup ReadTypeEntries

\* Every pointer contained in value v has its target slot filled.
RECURSIVE AllFilled(_)
AllFilled(v) ==
    CASE v.k \in {"AbsFilePtr", "RelFilePtr"} ->
            v.value.k = "Some" /\ AllFilled(v.value.v)
      [] v.k = "seq" -> \A i \in 1..Len(v.items) : AllFilled(v.items[i])
      [] v.k = "Box" -> AllFilled(v.inner)
      [] OTHER -> TRUE

\* The integer of `size` bytes at stream offset o, as byte order e decodes it.
DecodedAt(o, size, e) ==
    LET bytes == SubSeq(data, o + 1, o + size)
        little == e = "Little" \/ (e = "Native" /\ targetLittle)
    IN  IF little THEN from_le_bytes(bytes) ELSE from_be_bytes(bytes)

PlacementEvents == {i \in 1..Len(log) : log[i].ev = "AbsPlacement"}
FilePtrEvents == {i \in 1..Len(log) : log[i].ev = "FilePtr"}

\* C1 (as claimed): whenever a top-level entry point (read, read_args,
\* read_type, read_be, read_le, read_ne) hands a value to its caller,
\* after_parse has run exactly once on it and every pointer contained in it
\* has its target slot filled.
C1_ResolvedOnceOnReturn ==
    (phase = "returned" /\ call.entry \in TopLevelEntries /\ result.ok)
        => (resolves = 1 /\ AllFilled(result.val))

\* C2: every AbsPlacement::after_parse that returned Ok (top-level or nested
\* in another pointer's target, reached through any of the four pointer
\* types) left the stream at the position it had when it was entered.
C2_ResolveRestoresPosition ==
    \A i \in PlacementEvents : log[i].ok => log[i].exit = log[i].entry

\* C2 witness: a pointer to a pointer was resolved successfully, the inner
\* resolve entered away from where the outer one was entered, and both
\* sought away from their entry positions.
C2_Witness ==
    \E i, j \in PlacementEvents :
        /\ i < j /\ log[i].ok /\ log[j].ok
        /\ log[i].entry # log[j].entry
        /\ log[i].target # log[i].entry
        /\ log[j].target # log[j].entry

\* C3 (as claimed): every AbsPlacement::after_parse that returned an error
\* left the stream at the position it had when it was entered.
C3_FailedResolveRestoresPosition ==
    \A i \in PlacementEvents : ~log[i].ok => log[i].exit = log[i].entry

\* A dereference of the held pointer has happened.
Dereferenced ==
    \/ phase = "derefed"
    \/ phase = "panicked" /\ derefOut.k = "panic" /\ derefOut.msg = "Deref'd before reading"

\* The offset the held pointer points to.
HeldTarget ==
    IF call.t.k = "RelFilePtr" THEN result.val.ptr + call.opts.offset
    ELSE result.val.ptr

\* C4: a dereference of a pointer on which no after_parse has run panics;
\* a dereference after an after_parse that returned Ok yields the target
\* decoded at the offset the pointer points to.
C4_DerefPanicsUntilResolved ==
    Dereferenced =>
        /\ resolves = 0 => derefOut.k = "panic"
        /\ (resolves > 0 /\ result.err = None) =>
              /\ derefOut.k # "panic"
              /\ call.t.t.k = "int" =>
                    derefOut = IntV(DecodedAt(HeldTarget, call.t.t.size, call.opts.endian))
              /\ IsPtr(call.t.t) =>
                    /\ derefOut.k = call.t.t.k
                    /\ derefOut.ptr = DecodedAt(HeldTarget, call.t.t.pw, call.opts.endian)

\* C4 witness: a pointer read by BinReadExt::read, whose target lies inside
\* the stream, was dereferenced before any resolve.
C4_WitnessUnresolved ==
    /\ Dereferenced /\ resolves = 0 /\ call.entry = "read"
    /\ derefOut.k = "panic" /\ Len(data) > result.val.ptr

\* The other half of C4: a dereference after a resolve that the holder ran
\* itself, of a target that is not zero.
C4_WitnessResolved ==
    /\ phase = "derefed" /\ resolves = 1 /\ call.entry = "read_options"
    /\ derefOut.k = "int" /\ derefOut.v = 255

\* The case of C5: read_type (or read_be / read_le / read_ne) of an absolute
\* pointer of width w to an integer, from position 0, whose raw offset lies
\* inside the stream together with the integer it points to.
C5_Case ==
    /\ phase = "returned"
    /\ call.entry \in ReadTypeEntries
    /\ call.t.k = "AbsFilePtr" /\ call.t.t.k = "int"
    /\ Len(data) >= call.t.pw
    /\ DecodedAt(0, call.t.pw, call.opts.endian) + call.t.t.size <= Len(data)

\* C5: in that case the read succeeds, ptr is the raw offset p, the pointer
\* dereferences to the integer decoded at p, and the stream is left at w.
C5_AbsolutePointerRoundTrip ==
    C5_Case =>
        /\ result.ok
        /\ result.val.ptr = DecodedAt(0, call.t.pw, call.opts.endian)
        /\ deref_impl(result.val.value) =
              IntV(DecodedAt(result.val.ptr, call.t.t.size, call.opts.endian))
        /\ pos = call.t.pw

\* C5 witness: a two-byte pointer to the last byte of the stream, which is
\* neither where the pointer ends nor zero.
C5_Witness ==
    /\ C5_Case /\ call.t.pw = 2 /\ result.ok
    /\ result.val.ptr = 2 /\ Len(data) = 3
    /\ deref_impl(result.val.value) = IntV(255)

EndianOf(c) ==
    IF c.endian # Inherit THEN c.endian
    ELSE IF enum.endian # Inherit THEN enum.endian
    ELSE EndianDefault

MagicSize(c) == IF c.magic = None THEN 0 ELSE c.magic.v.size

RECURSIVE SizeOfAll(_)
SizeOfAll(ts) == IF ts = <<>> THEN 0 ELSE Head(ts).size + SizeOfAll(Tail(ts))

\* The stream holds, at offset o, candidate c's magic and room for its fields.
Accepts(c, o) ==
    /\ o + MagicSize(c) + SizeOfAll(c.fields) <= Len(data)
    /\ c.magic # None => DecodedAt(o, MagicSize(c), EndianOf(c)) = c.magic.v.v

\* The fields of candidate c as the stream holds them after its magic at o.
FieldsAt(c, o) ==
    [i \in 1..Len(c.fields) |->
        IntV(DecodedAt(o + MagicSize(c) + SizeOfAll(SubSeq(c.fields, 1, i - 1)),
                       c.fields[i].size, EndianOf(c)))]

\* The failure of candidate c at offset o, when it fails.
FailureAt(c, o) ==
    IF /\ c.magic # None
       /\ o + MagicSize(c) <= Len(data)
       /\ DecodedAt(o, MagicSize(c), EndianOf(c)) # c.magic.v.v
    THEN BadMagic(o, DecodedAt(o, MagicSize(c), EndianOf(c)))
    ELSE IoError

EnumReturned == phase = "returned" /\ call.t.k = "enum"
Committed == EnumReturned /\ result.ok
NoneMatched == EnumReturned /\ ~result.ok

\* C7: when variant resolution commits, the candidates attempted are the
\* first idx candidates in declaration order and no others, every one before
\* the last failed and is a candidate the input does not satisfy, and the
\* value returned is the last one's, with its fields decoded from the input.
C7_FirstSuccessCommits ==
    Committed =>
        /\ Len(enum.attempts) = enum.idx
        /\ enum.idx <= Len(enum.cands)
        /\ \A j \in 1..enum.idx : enum.attempts[j].name = enum.cands[j].name
        /\ \A j \in 1..(enum.idx - 1) :
              ~enum.attempts[j].ok /\ ~Accepts(enum.cands[j], enum.saved)
        /\ enum.attempts[enum.idx].ok
        /\ Accepts(enum.cands[enum.idx], enum.saved)
        /\ result.val = VariantV(enum.cands[enum.idx].name,
                                 FieldsAt(enum.cands[enum.idx], enum.saved))

\* C7 witness: magics 0u8 and 2u8 in that order, input 0x02 followed by two
\* 16-bit fields: the second candidate, with both fields decoded.
C7_Witness ==
    /\ Committed /\ enum.name = "mixed_enum" /\ enum.saved = 0
    /\ data = <<2, 0, 1, 0, 2>>
    /\ result.val = VariantV("Two", <<IntV(1), IntV(2)>>)
    /\ Len(enum.attempts) = 2

\* C8: every candidate's read starts at the position saved on entry, and
\* between two candidates the stream is at that position, whatever the
\* candidate that failed consumed.
C8_CandidatesStartAtSaved ==
    call.t.k = "enum" =>
        /\ \A j \in 1..Len(enum.attempts) : enum.attempts[j].start = enum.saved
        /\ phase = "probing" => pos = enum.saved

\* C8 witness: away from the start of the stream, a candidate that failed
\* after consuming bytes was followed by another that then succeeded.
C8_Witness ==
    /\ Committed /\ enum.saved > 0
    /\ \E j \in 1..Len(enum.attempts) :
          /\ ~enum.attempts[j].ok
          /\ enum.attempts[j].end > enum.attempts[j].start
          /\ j < Len(enum.attempts)

\* C9: under return_all_errors, when every candidate fails the error is
\* EnumErrors at the saved position with one (name, error) pair per declared
\* candidate, in declaration order, each holding that candidate's failure:
\* BadMagic with the value found for a magic mismatch, Io for input that
\* ran out.
C9_CollectAllErrors ==
    (NoneMatched /\ enum.policy = "return_all_errors") =>
        /\ result.err.k = "EnumErrors"
        /\ result.err.pos = enum.saved
        /\ Len(result.err.variant_errors) = Len(enum.cands)
        /\ \A j \in 1..Len(enum.cands) :
              /\ result.err.variant_errors[j][1] = enum.cands[j].name
              /\ result.err.variant_errors[j][2] = FailureAt(enum.cands[j], enum.saved)

\* C9 witness: magics 0u16 and 1u16, input 00 01: BadMagic for the first
\* candidate, Io for the second, whose magic matched.
C9_Witness ==
    /\ NoneMatched /\ enum.policy = "return_all_errors"
    /\ enum.name = "enum_return_errors" /\ data = <<0, 1>> /\ enum.saved = 0
    /\ result.err = EnumErrors(0, << <<"One", BadMagic(0, 1)>>, <<"Two", IoError>> >>)

\* C10: under return_unexpected_error, when every candidate fails the error
\* is NoVariantMatch holding the saved position and nothing else, whatever
\* the candidates' failures were.
C10_ReducedDetail ==
    (NoneMatched /\ enum.policy = "return_unexpected_error") =>
        result.err = NoVariantMatch(enum.saved)

\* C10 witness: away from the start of the stream, one candidate failed on
\* its magic and another ran out of input after its magic matched.
C10_Witness ==
    /\ NoneMatched /\ enum.policy = "return_unexpected_error"
    /\ enum.saved > 0
    /\ \E j \in 1..Len(enum.errors) : enum.errors[j][2].k = "BadMagic"
    /\ \E j \in 1..Len(enum.errors) :
          /\ enum.errors[j][2] = IoError
          /\ enum.saved + MagicSize(enum.cands[j]) <= Len(data)
    /\ result.err.k = "NoVariantMatch"

\* C11: a variant resolution run with no policy selected ends as the same
\* resolution of the same input under return_all_errors does: the same
\* committed value and stream position, or the same EnumErrors.
C11_DefaultIsCollectAll ==
    (EnumReturned /\ enum.policy = "default") =>
        [ok |-> result.ok, val |-> result.val, err |-> result.err, pos |-> pos, log |-> <<>>]
            = resolve_from([enum EXCEPT !.policy = "return_all_errors"], 1, <<>>)

\* C11 witness: with no policy selected every candidate failed, one on its
\* magic and one on its fields, and the error lists both.
C11_Witness ==
    /\ NoneMatched /\ enum.policy = "default"
    /\ result.err.k = "EnumErrors" /\ Len(result.err.variant_errors) = 2
    /\ result.err.variant_errors[1][2].k = "BadMagic"
    /\ result.err.variant_errors[2][2] = IoError

(* ================= claims on magic and byte-order marks ================ *)

\* The call in progress is a returned Endian::parse_bom entered at log[1].at.
BomReturned == phase = "returned" /\ call.entry = "parse_bom"

\* The two bytes at offset o are in the stream and are no byte-order mark.
NoMarkAt(o) ==
    /\ o + 2 <= Len(data)
    /\ SubSeq(data, o + 1, o + 2) \notin {<<254, 255>>, <<255, 254>>}

\* Candidate c's magic is in the stream at offset o and differs from c's.
MagicMismatchAt(c, o) ==
    /\ c.magic # None
    /\ o + MagicSize(c) <= Len(data)
    /\ DecodedAt(o, MagicSize(c), EndianOf(c)) # c.magic.v.v

\* C12: a magic mismatch is BadMagic at the position the stream had before
\* the magic was read, holding the value decoded there. For an enum
\* candidate that is the saved position and the magic decoded in the
\* candidate's byte order; for Endian::parse_bom the position on entry and
\* the two bytes decoded as big endian.
C12_BadMagicAtPositionBefore ==
    /\ call.t.k = "enum" =>
          \A j \in 1..Len(enum.errors) :
              MagicMismatchAt(enum.cands[j], enum.saved) =>
                  enum.errors[j][2] =
                      BadMagic(enum.saved,
                               DecodedAt(enum.saved, MagicSize(enum.cands[j]),
                                         EndianOf(enum.cands[j])))
    /\ (BomReturned /\ NoMarkAt(log[1].at)) =>
          /\ ~result.ok
          /\ result.err = BadMagic(log[1].at, DecodedAt(log[1].at, 2, "Big"))

\* C12 witness: parse_bom entered away from the start of the stream, under
\* a little-endian context, on the bytes FE FE.
C12_Witness ==
    /\ BomReturned /\ log[1].at = 1 /\ call.opts.endian = "Little"
    /\ Len(data) >= 3 /\ SubSeq(data, 2, 3) = <<254, 254>>
    /\ result.err = BadMagic(1, 65278)

\* The enum half of C12: away from the start of the stream a candidate's
\* two-byte magic did not match.
C12_WitnessEnum ==
    /\ call.t.k = "enum" /\ enum.saved = 1
    /\ \E j \in 1..Len(enum.errors) :
          /\ MagicMismatchAt(enum.cands[j], 1) /\ MagicSize(enum.cands[j]) = 2
          /\ enum.errors[j][2].k = "BadMagic" /\ enum.errors[j][2].pos = 1

\* The candidates of the enum being resolved that have no magic.
CatchAlls == {j \in 1..Len(enum.cands) : enum.cands[j].magic = None}

RecordReturned(n) == phase = "returned" /\ call.t.k = "record" /\ call.t.name = n

\* The two bytes at offset o are a byte-order mark.
MarkAt(o) ==
    /\ o + 2 <= Len(data)
    /\ SubSeq(data, o + 1, o + 2) \in {<<254, 255>>, <<255, 254>>}

\* The byte order the mark at offset o stands for.
OrderAt(o) == IF SubSeq(data, o + 1, o + 2) = <<255, 254>> THEN "Little" ELSE "Big"

\* EndianTest as the stream holds it at offset o.
EndianTestAt(o) == SeqV(<<EndianV(OrderAt(o)), IntV(DecodedAt(o + 2, 2, OrderAt(o)))>>)

\* C14: the byte order a field injects with set_opts is the one the fields
\* after it in the same record are decoded under, whatever byte order the
\* read was entered with, and no other field is: a field before it and a
\* later sibling of the record that holds it are decoded under the byte
\* order the read was entered with. A record whose mark is invalid fails.
C14_SetOptsIsForwardScoped ==
    /\ (RecordReturned("EndianTest") /\ MarkAt(log[1].at) /\ log[1].at + 4 <= Len(data)) =>
          /\ result.ok
          /\ result.val = EndianTestAt(log[1].at)
    /\ (RecordReturned("EndianTest") /\ NoMarkAt(log[1].at)) =>
          ~result.ok /\ result.err.k = "BadMagic"
    /\ (RecordReturned("Around") /\ MarkAt(log[1].at + 2) /\ log[1].at + 8 <= Len(data)) =>
          /\ result.ok
          /\ result.val =
                SeqV(<< IntV(DecodedAt(log[1].at, 2, call.opts.endian)),
                        EndianTestAt(log[1].at + 2),
                        IntV(DecodedAt(log[1].at + 6, 2, call.opts.endian)) >>)

\* C14 witness: a record entered as big endian whose inner record injects
\* little endian: the field before and the sibling after decode 01 05 as
\* 0x0105, the field after the mark decodes it as 0x0501.
C14_Witness ==
    /\ RecordReturned("Around") /\ result.ok
    /\ call.opts.endian = "Big"
    /\ data = <<1, 5, 255, 254, 1, 5, 1, 5>>
    /\ result.val = SeqV(<< IntV(261), SeqV(<<EndianV("Little"), IntV(1281)>>), IntV(261) >>)

\* The example of C14: FF FE 01 05 read with read_ne on either target, and
\* FE FE 01 05 failing.
C14_WitnessExample ==
    /\ RecordReturned("EndianTest") /\ call.opts.endian = "Native"
    /\ ~targetLittle
    /\ data = <<255, 254, 1, 5>>
    /\ result.val = SeqV(<<EndianV("Little"), IntV(1281)>>)

(* ========================= claims on ReadOptions ======================= *)

\* The last operation handed back a new context.
DerivedNow == ctx.op.name \in {"insert", "remove"}

\* C15: after new = ctx.insert(v) or new = ctx.remove::<K>() every get and
\* contains on ctx answers as before the call, for every key, while new
\* answers with v under v's key (insert), with nothing under an extension
\* key and the default under a built-in key (remove), and as ctx does under
\* every other key.
C15_OverlayLeavesParent ==
    DerivedNow =>
        /\ \A K \in Keys :
              /\ ReadOptions_get(ctx.self, K) = ReadOptions_get(ctx.before, K)
              /\ ReadOptions_contains(ctx.self, K) = ReadOptions_contains(ctx.before, K)
        /\ \A K \in Keys \ {ctx.op.key} :
              ReadOptions_get(ctx.cur, K) = ReadOptions_get(ctx.before, K)
        /\ ctx.op.name = "insert" =>
              ReadOptions_get(ctx.cur, ctx.op.key) = Some(ctx.op.value)
        /\ ctx.op.name = "remove" =>
              ReadOptions_get(ctx.cur, ctx.op.key) =
                  ReadOptions_get(ReadOptions_default, ctx.op.key)

\* C15 witnesses: an extension key already set was overwritten in the new
\* context, and a built-in key that had been set was removed in it.
C15_Witness ==
    /\ ctx.op.name = "insert" /\ ctx.op.key = "ExtA"
    /\ ReadOptions_get(ctx.self, "ExtA") = Some(0)
    /\ ReadOptions_get(ctx.cur, "ExtA") = Some(1)
    /\ ReadOptions_get(ctx.self, "Endian") = Some("Big")

C15_WitnessRemove ==
    /\ ctx.op.name = "remove" /\ ctx.op.key = "FileOffset"
    /\ ReadOptions_get(ctx.self, "FileOffset") = Some(1)
    /\ ReadOptions_get(ctx.cur, "FileOffset") = Some(0)
\* C16: in every context reachable from the default one, contains reports
\* each built-in key (byte order, count, offset) as present.
C16_BuiltinsAlwaysContained ==
    \A K \in BuiltinKeys : ReadOptions_contains(ctx.cur, K)

(* ============================ claims on Box ============================ *)

\* C17 (as claimed): once after_parse has returned Ok on a Box<T> that was
\* read (through read_type, read_be, read_le, read_ne, or read_options
\* followed by after_parse), every pointer held inside the Box has its
\* target slot filled.
C17_BoxForwardsResolve ==
    (phase \in {"returned", "resolved"} /\ result.ok /\ call.t.k = "Box" /\ resolves >= 1)
        => AllFilled(result.val)

(* ======================== claims on args_default ======================= *)

\* The entry points that take no arguments from their caller.
ZeroArgEntries == {"read"} \cup ReadTypeEntries

\* C18: args_default yields a value exactly for the types whose Args is ();
\* a zero-argument entry point called for a type whose Args is not () has
\* panicked with nothing read (no event logged, no result, the stream where
\* it was), and one called for a type whose Args is () has gone on with ().
C18_NoDefaultArgsFailsAtCall ==
    /\ \A t \in TypeSet : (args_default(t) # None) <=> (ArgsKind(t) = "unit")
    /\ call.entry \in ZeroArgEntries =>
          IF ArgsKind(call.t) = "unit"
          THEN call.args = Unit /\ ~(phase = "panicked" /\ derefOut.msg = "Must pass args")
          ELSE /\ phase = "panicked"
               /\ derefOut = Panic("Must pass args")
               /\ pos = 0 /\ log = <<>> /\ result = NoResult /\ resolves = 0

\* C18 witness: read_be was called for a Counted<u8>, whose Args is
\* (usize, ()), on a stream that had bytes to give, and it panicked.
C18_Witness ==
    /\ phase = "panicked" /\ call.entry = "read_be"
    /\ call.t = Counted(U8) /\ Len(data) >= 1
    /\ derefOut = Panic("Must pass args")

(* ========================= claims on primitives ======================== *)

\* A primitive read has returned: where it was entered, its size, its order.
PrimReturned == phase = "returned" /\ call.entry = "read_options" /\ call.t \in PrimTypes
PrimAt == log[1].at
PrimSize == call.t.size
PrimOrder == call.opts.endian

\* The bytes the primitive read was given.
PrimBytes == SubSeq(data, PrimAt + 1, PrimAt + PrimSize)

\* The n-byte unsigned integers whose encodings are made of stream bytes.
RECURSIVE ValuesOver(_)
ValuesOver(n) ==
    IF n = 0 THEN {0} ELSE {v * 256 + b : v \in ValuesOver(n - 1), b \in Bytes}

\* encode(x, Big) and encode(x, Little) on n bytes.
RECURSIVE to_be_bytes(_, _)
to_be_bytes(x, n) ==
    IF n = 0 THEN <<>> ELSE Append(to_be_bytes(x \div 256, n - 1), x % 256)

RECURSIVE to_le_bytes(_, _)
to_le_bytes(x, n) ==
    IF n = 0 THEN <<>> ELSE <<x % 256>> \o to_le_bytes(x \div 256, n - 1)

encode(x, n, order) == IF order = "Big" THEN to_be_bytes(x, n) ELSE to_le_bytes(x, n)

\* The n-byte integer x with its bytes in the opposite order.
RECURSIVE swap_bytes(_, _)
swap_bytes(x, n) ==
    IF n = 0 THEN 0
    ELSE (x % 256) * (256 ^ (n - 1)) + swap_bytes(x \div 256, n - 1)

\* What the bytes at PrimAt decode to under a given order.
PrimDecode(order) == int_decode(read_exact(PrimAt, PrimSize), order).val.v

\* C19: a successful primitive read under Big or Little that was given the
\* bytes encoding x in that order returned x; the same bytes decode under
\* Big to the byte-swapped value of what they decode to under Little; and a
\* read under Native returned what Little gives on a little-endian target
\* and what Big gives otherwise.
C19_DecodeInvertsEncode ==
    (PrimReturned /\ result.ok) =>
        /\ PrimOrder \in {"Big", "Little"} =>
              \A x \in ValuesOver(PrimSize) :
                  PrimBytes = encode(x, PrimSize, PrimOrder) => result.val = IntV(x)
        /\ PrimDecode("Big") = swap_bytes(PrimDecode("Little"), PrimSize)
        /\ PrimOrder = "Native" =>
              result.val = IntV(PrimDecode(IF targetLittle THEN "Little" ELSE "Big"))

\* C19 witness: a u16 was read under Little, away from the start of the
\* stream, from the bytes 01 02 that encode 0x0201 in that order.
C19_Witness ==
    /\ PrimReturned /\ result.ok
    /\ PrimSize = 2 /\ PrimOrder = "Little" /\ PrimAt = 1
    /\ PrimBytes = <<1, 2>>
    /\ result.val = IntV(513)

\* C20: a primitive read of size n entered at position p failed exactly when
\* fewer than n bytes remained at p, and then with the I/O error; when it
\* succeeded it left the stream at p + n.
C20_FailsIffTooFewBytes ==
    PrimReturned =>
        /\ result.ok <=> (PrimAt + PrimSize <= Len(data))
        /\ ~result.ok => result.err = IoError
        /\ result.ok => pos = PrimAt + PrimSize

\* C20 witnesses: a u16 read with one byte left failed with the I/O error;
\* a u16 read of the bytes FF FF under Big, ending at the end of the
\* stream, succeeded and advanced by 2.
C20_Witness ==
    /\ PrimReturned /\ ~result.ok /\ result.err = IoError
    /\ PrimSize = 2 /\ PrimAt = Len(data) - 1

C20_WitnessSuccess ==
    /\ PrimReturned /\ result.ok /\ PrimSize = 2 /\ PrimOrder = "Big"
    /\ PrimAt = 1 /\ Len(data) = 3 /\ pos = 3
    /\ result.val = IntV(65535)

(* ========================== claims on Counted ========================== *)

\* A Counted<B> read that was given its arguments has returned, and no
\* after_parse has run on what it returned.
CountedReturned ==
    /\ phase = "returned" /\ call.entry \in {"read_args", "read_options"}
    /\ call.t.k = "Counted"

\* The bytes one element of type t takes in the stream.
SlotSize(t) == IF t.k = "int" THEN t.size ELSE t.pw

\* What B::read_options gives at the i-th consecutive element slot.
SlotRead(i) ==
    read_options(call.t.t, (i - 1) * SlotSize(call.t.t), call.opts, call.args[2])

\* The first slot, if any, whose element cannot be read.
FirstBadSlot == {k \in 1..call.args[1] :
                    /\ ~SlotRead(k).ok
                    /\ \A j \in 1..(k - 1) : SlotRead(j).ok}

\* C21: a Counted read with count c entered at position 0 returned Ok
\* exactly when all c element slots could be read, and then a sequence of
\* exactly c elements, element i being what the element type decodes at slot
\* i, with the stream left after slot c (for c = 0: the empty sequence and
\* the stream where it was); otherwise it returned the error of the first
\* slot that could not be read, and no sequence.
C21_CountedReadsExactlyCount ==
    CountedReturned =>
        /\ result.ok <=> (FirstBadSlot = {})
        /\ result.ok =>
              /\ result.val.k = "seq"
              /\ Len(result.val.items) = call.args[1]
              /\ \A i \in 1..call.args[1] : result.val.items[i] = SlotRead(i).val
              /\ pos = call.args[1] * SlotSize(call.t.t)
        /\ ~result.ok =>
              /\ \A k \in FirstBadSlot : result.err = SlotRead(k).err
              /\ result.val = None

\* C21 witnesses: two u8 elements were read from a stream of three bytes
\* that differ; a Counted<u16> of count 2 failed on its second element,
\* with one byte left for it; a Counted of count 0 read nothing from a
\* stream that had bytes.
C21_Witness ==
    /\ CountedReturned /\ result.ok
    /\ call.t = Counted(U8) /\ call.args[1] = 2
    /\ Len(data) = 3 /\ data[1] # data[2]
    /\ result.val = SeqV(<<IntV(data[1]), IntV(data[2])>>) /\ pos = 2

C21_WitnessFailure ==
    /\ CountedReturned /\ ~result.ok /\ result.err = IoError
    /\ call.t = Counted(U16) /\ call.args[1] = 2 /\ Len(data) = 3

C21_WitnessZero ==
    /\ CountedReturned /\ result.ok /\ call.args[1] = 0
    /\ Len(data) >= 1 /\ result.val = SeqV(<<>>) /\ pos = 0

(* ========================= claims on Punctuated ======================== *)

\* One of the two parsers has returned to its caller.
PunctReturned(entry) == phase = "returned" /\ call.entry = entry
PunctBoth == PunctReturned("separated") \/ PunctReturned("separated_trailing")

\* Where the call was entered, its count, the reads it made, the sizes of an
\* element and of a separator, and the stream offsets of the i-th of each.
PunctStart == log[1].at
PunctCount == call.args[1]
PunctReads == Tail(log)
ElemSize == call.t.t.size
SepSize == call.t.p.size
ElemAt(i) == PunctStart + (i - 1) * (ElemSize + SepSize)
SepAt(i) == ElemAt(i) + ElemSize

\* The elements and the separators are the values at their stream offsets,
\* and the reads were made in stream order: element i, then separator i.
InStreamOrder(nSeps) ==
    /\ \A i \in 1..PunctCount :
          /\ result.val.data[i] = IntV(DecodedAt(ElemAt(i), ElemSize, call.opts.endian))
          /\ PunctReads[2 * i - 1].ev = "elem" /\ PunctReads[2 * i - 1].at = ElemAt(i)
    /\ \A i \in 1..nSeps :
          /\ result.val.seperators[i] = IntV(DecodedAt(SepAt(i), SepSize, call.opts.endian))
          /\ PunctReads[2 * i].ev = "sep" /\ PunctReads[2 * i].at = SepAt(i)
          /\ PunctReads[2 * i].at = PunctReads[2 * i - 1].exit

\* C22: Punctuated::separated with count c that returned Ok holds exactly c
\* elements and c - 1 separators (none for c = 0), each the value at its
\* place in the stream, read as element, separator, element, ..., element;
\* the stream is left right after the last element; with c = 0 it made no
\* read, returned Ok and left the stream where it was.
C22_SeparatedEndsOnElement ==
    PunctReturned("separated") =>
        /\ PunctCount = 0 => result.ok
        /\ result.ok =>
              LET nSeps == IF PunctCount = 0 THEN 0 ELSE PunctCount - 1
              IN  /\ Len(result.val.data) = PunctCount
                  /\ Len(result.val.seperators) = nSeps
                  /\ Len(PunctReads) = PunctCount + nSeps
                  /\ InStreamOrder(nSeps)
                  /\ pos = IF PunctCount = 0 THEN PunctStart
                           ELSE ElemAt(PunctCount) + ElemSize

\* C22 witnesses: three u8 elements and two u8 separators were read from
\* five bytes; two elements and one separator were read and the byte after
\* the last element was left in the stream.
C22_Witness ==
    /\ PunctReturned("separated") /\ result.ok /\ PunctCount = 3
    /\ call.t = PunctOf(U8, U8) /\ Len(data) = 5 /\ data[2] # data[3]
    /\ Len(result.val.data) = 3 /\ Len(result.val.seperators) = 2 /\ pos = 5

C22_WitnessNextByteLeft ==
    /\ PunctReturned("separated") /\ result.ok /\ PunctCount = 2
    /\ call.t = PunctOf(U8, U8) /\ PunctStart = 1 /\ pos = 4 /\ Len(data) = 5

\* C23: Punctuated::separated_trailing with count c that returned Ok holds
\* exactly c elements and c separators, each the value at its place in the
\* stream, separator i read right where the read of element i ended; the
\* stream is left after the last separator.
C23_TrailingReadsPairs ==
    (PunctReturned("separated_trailing") /\ result.ok) =>
        /\ Len(result.val.data) = PunctCount
        /\ Len(result.val.seperators) = PunctCount
        /\ Len(PunctReads) = 2 * PunctCount
        /\ InStreamOrder(PunctCount)
        /\ pos = PunctStart + PunctCount * (ElemSize + SepSize)

\* C23 witness: two (u8, u8) pairs were read from the first four bytes of a
\* stream of five, whose elements differ from their separators.
C23_Witness ==
    /\ PunctReturned("separated_trailing") /\ result.ok /\ PunctCount = 2
    /\ call.t = PunctOf(U8, U8) /\ PunctStart = 0
    /\ Len(data) = 5 /\ data[1] # data[2] /\ data[3] # data[4] /\ pos = 4
    /\ result.val.data = <<IntV(data[1]), IntV(data[3])>>
    /\ result.val.seperators = <<IntV(data[2]), IntV(data[4])>>

\* The bytes a call of either parser needs from where it is entered.
PunctNeeded ==
    IF call.entry = "separated_trailing" THEN PunctCount * (ElemSize + SepSize)
    ELSE IF PunctCount = 0 THEN 0
    ELSE PunctCount * ElemSize + (PunctCount - 1) * SepSize

\* C24: either parser returned Ok exactly when the stream held every
\* element and separator it had to read; otherwise it returned the I/O
\* error of the first read that failed, which is the last read it made, and
\* no Punctuated value.
C24_PunctuatedFailsOnShortStream ==
    PunctBoth =>
        /\ result.ok <=> (PunctStart + PunctNeeded <= Len(data))
        /\ ~result.ok =>
              /\ result.err = IoError
              /\ result.val = None
              /\ PunctReads # <<>>
              /\ ~PunctReads[Len(PunctReads)].ok
              /\ \A i \in 1..(Len(PunctReads) - 1) : PunctReads[i].ok

\* C24 witnesses: separated failed on its third element after two elements
\* and two separators had been read; separated_trailing failed on its
\* second separator after two elements and one separator had been read.
C24_Witness ==
    /\ PunctReturned("separated") /\ ~result.ok /\ PunctCount = 3
    /\ Len(PunctReads) = 5 /\ PunctReads[5].ev = "elem"

C24_WitnessTrailing ==
    /\ PunctReturned("separated_trailing") /\ ~result.ok /\ PunctCount = 2
    /\ Len(PunctReads) = 4 /\ PunctReads[4].ev = "sep"

(* ==================== claims on ReadOptions lookups ==================== *)

InsertedNow == ctx.op.name \in {"insert", "insert_mut"}
RemovedNow == ctx.op.name \in {"remove", "remove_mut"}

\* The field of the context that holds built-in key K.
FieldOf(self, K) ==
    CASE K = "Endian" -> Some(self.endian)
      [] K = "VecCount" -> self.count
      [] K = "FileOffset" -> Some(self.offset)

\* C25: in the default context get gives no count; after an insert of v
\* under a built-in key the field of that key holds v and get returns v;
\* after a removal get returns what the default context gives; and an
\* operation on another key leaves what get returns for the key as it was.
\* Hence get always returns the value most recently inserted, and none for a
\* count that was never inserted.
C25_GetReturnsLastInserted ==
    /\ ctx.op.name = "default" => ReadOptions_get(ctx.cur, "VecCount") = None
    /\ \A K \in BuiltinKeys :
          CASE InsertedNow /\ ctx.op.key = K ->
                  /\ ReadOptions_get(ctx.cur, K) = Some(ctx.op.value)
                  /\ FieldOf(ctx.cur, K) = Some(ctx.op.value)
            [] RemovedNow /\ ctx.op.key = K ->
                  ReadOptions_get(ctx.cur, K) = ReadOptions_get(ReadOptions_default, K)
            [] OTHER ->
                  ReadOptions_get(ctx.cur, K) = ReadOptions_get(ctx.before, K)

\* C25 witnesses: an offset of 0 was inserted over an offset of 1 and get
\* returns 0; a count of 0 was inserted where there was none.
C25_Witness ==
    /\ ctx.op.name = "insert_mut" /\ ctx.op.key = "FileOffset" /\ ctx.op.value = 0
    /\ ReadOptions_get(ctx.before, "FileOffset") = Some(1)
    /\ ReadOptions_get(ctx.cur, "FileOffset") = Some(0)

C25_WitnessCountZero ==
    /\ ctx.op.name = "insert_mut" /\ ctx.op.key = "VecCount" /\ ctx.op.value = 0
    /\ ReadOptions_get(ctx.before, "VecCount") = None
    /\ ReadOptions_get(ctx.cur, "VecCount") = Some(0)

\* C27 (as claimed): in every reachable context, for every key, contains is
\* true exactly when get returns a value.
C27_ContainsAgreesWithGet ==
    \A K \in Keys :
        ReadOptions_contains(ctx.cur, K) <=> (ReadOptions_get(ctx.cur, K) # None)

(* ================== claims on the order of the two phases ============== *)

\* A composite of arrays, tuples or Counted was read, and after_parse has
\* run once on what was read: inside read_type, or called by the holder of
\* a value that read_options or read_args returned.
CompositeResolved ==
    /\ phase \in {"returned", "resolved"}
    /\ call.t.k \in {"array", "tuple", "Counted"}
    /\ call.entry \in ReadTypeEntries \cup {"read_options", "read_args"}
    /\ resolves = 1

IsReadEvent(e) == e.ev = "read"
IsFilePtrEvent(e) == e.ev = "FilePtr"
IsPlacementEvent(e) == e.ev = "AbsPlacement"
IsResolveEvent(e) == e.ev # "read"
IsPtrV(v) == v.k \in {"AbsFilePtr", "RelFilePtr"}

\* The reads of the pointer members, the resolves of the pointer members
\* and the placements they ran, each in the order they happened.
MemberReads == SelectSeq(log, IsReadEvent)
MemberResolves == SelectSeq(log, IsFilePtrEvent)
MemberPlacements == SelectSeq(log, IsPlacementEvent)

\* The member types of the composite read, in index order.
MemberTypes ==
    CASE call.t.k = "array" -> [i \in 1..call.t.n |-> call.t.t]
      [] call.t.k = "tuple" -> call.t.ts
      [] call.t.k = "Counted" -> [i \in 1..call.args[1] |-> call.t.t]

\* C26: when after_parse has run once on a composite that was read, every
\* read of a member precedes every resolve of a member; every member was
\* read, in index order; each resolve was entered with the stream past the
\* last member read; the k-th resolve is that of the k-th member read; a
\* resolve that failed is the last one made, and the members after it are
\* left unresolved; if none failed every member was resolved.
C26_ResolveAfterWholeRead ==
    CompositeResolved =>
        /\ log = MemberReads \o SelectSeq(log, IsResolveEvent)
        /\ Len(MemberReads) = Len(SelectSeq(MemberTypes, IsPtr))
        /\ \A i \in 1..(Len(MemberReads) - 1) : MemberReads[i].at < MemberReads[i + 1].at
        /\ Len(MemberResolves) = Len(MemberPlacements)
        /\ Len(MemberResolves) <= Len(MemberReads)
        /\ \A k \in 1..Len(MemberResolves) :
              /\ MemberResolves[k].kind = MemberReads[k].kind
              /\ MemberResolves[k].raw = data[MemberReads[k].at + 1]
              /\ MemberPlacements[k].entry > MemberReads[Len(MemberReads)].at
              /\ ~MemberPlacements[k].ok => k = Len(MemberPlacements)
        /\ IF \E k \in 1..Len(MemberPlacements) : ~MemberPlacements[k].ok
           THEN /\ result.err # None
                /\ phase = "resolved" =>
                      \A j \in (Len(MemberResolves) + 1)..Len(MemberReads) :
                          SelectSeq(result.val.items, IsPtrV)[j].value = None
           ELSE Len(MemberResolves) = Len(MemberReads)

\* C26 witnesses: read_be of [AbsFilePtr8<u8>; 2] read both pointers at 0
\* and 1 and then resolved both, entered at 2; the holder of such an array
\* ran after_parse, the first member's resolve failed and the second
\* member, whose target was there, was left unresolved.
C26_Witness ==
    /\ CompositeResolved /\ call.entry = "read_be" /\ result.ok
    /\ call.t = Array(2, Ptr8U8) /\ Len(data) = 3 /\ data[1] # data[2]
    /\ Len(MemberReads) = 2 /\ Len(MemberPlacements) = 2
    /\ MemberPlacements[1].entry = 2 /\ MemberPlacements[2].entry = 2
    /\ MemberPlacements[1].target # MemberPlacements[2].target

C26_WitnessFailureStops ==
    /\ CompositeResolved /\ phase = "resolved" /\ result.err # None
    /\ call.t = Array(2, Ptr8U8)
    /\ Len(MemberPlacements) = 1 /\ ~MemberPlacements[1].ok
    /\ result.val.items[2].ptr < Len(data)
    /\ result.val.items[2].value = None

(* ====================== claims on the layered context ================== *)

\* The nodes of a chain from the outermost in, and its tail.
RECURSIVE NodesOf(_)
NodesOf(c) == IF c.k = "node" THEN <<c>> \o NodesOf(c.rest) ELSE <<>>
RECURSIVE TailOf(_)
TailOf(c) == IF c.k = "node" THEN TailOf(c.rest) ELSE c

\* The indexes of the nodes of chain c whose type is K.
Matching(c, K) == {i \in 1..Len(NodesOf(c)) : NodesOf(c)[i].ty = K}

\* The value of the first node of type K, else what the tail holds under K.
FirstMatch(c, K) ==
    IF Matching(c, K) # {}
    THEN Some(NodesOf(c)[CHOOSE i \in Matching(c, K) : \A j \in Matching(c, K) : i <= j].val)
    ELSE IF TailOf(c).k = "map" THEN TailOf(c).map[K] ELSE None

ChainInserted == ctx.op.name = "insert" /\ ctx.cur.k \in {"unit", "map", "node"}

\* C28: after insert(v) on a chain, it returned true exactly when get of
\* v's key now returns v; it returned false exactly when no node has v's
\* type and the chain ends in (), and then the chain is what it was; get
\* of every other key returns what it returned before; and get of any key
\* returns the value of the first node of that type, else what the tail
\* holds.
C28_ChainInsertAgreesWithGet ==
    ChainInserted =>
        /\ ctx.op.ret <=> (OptionsCollection_get(ctx.cur, ctx.op.key) = Some(ctx.op.value))
        /\ ~ctx.op.ret <=>
              (Matching(ctx.before, ctx.op.key) = {} /\ TailOf(ctx.before).k = "unit")
        /\ ~ctx.op.ret => ctx.cur = ctx.before
        /\ \A K \in Keys \ {ctx.op.key} :
              OptionsCollection_get(ctx.cur, K) = OptionsCollection_get(ctx.before, K)
        /\ \A K \in Keys :
              /\ OptionsCollection_get(ctx.cur, K) = FirstMatch(ctx.cur, K)
              /\ OptionsCollection_contains(ctx.cur, K) <=> (FirstMatch(ctx.cur, K) # None)

\* C28 witnesses: an extension value inserted into a ReadOptions ending in
\* () was dropped; one inserted into a ReadOptions ending in the map was
\* kept there; an offset inserted into a chain with two offset nodes went to
\* the first one only.
C28_Witness ==
    /\ ChainInserted /\ ctx.op.key = "ExtA" /\ ~ctx.op.ret
    /\ Len(NodesOf(ctx.cur)) = 3 /\ TailOf(ctx.cur) = UnitTail
    /\ OptionsCollection_get(ctx.cur, "Endian") = Some("Big")
    /\ OptionsCollection_get(ctx.cur, "ExtA") = None

C28_WitnessMap ==
    /\ ChainInserted /\ ctx.op.key = "ExtA" /\ ctx.op.ret
    /\ Len(NodesOf(ctx.cur)) = 3
    /\ OptionsCollection_get(ctx.before, "ExtA") = Some(0)
    /\ OptionsCollection_get(ctx.cur, "ExtA") = Some(1)

C28_WitnessFirstNode ==
    /\ ChainInserted /\ ctx.op.key = "FileOffset" /\ ctx.op.ret
    /\ Cardinality(Matching(ctx.cur, "FileOffset")) = 2
    /\ NodesOf(ctx.cur)[1].val = 1 /\ NodesOf(ctx.cur)[2].val = 0

====
